---------------------------- MODULE Spec2Model ----------------------------
(***************************************************************************)
(* Stock-Data-Fetcher: the orchestrator's StockQueueService (two locked    *)
(* FIFO work queues) and the data fetching service's GapDetector and       *)
(* DataFetcher (detect_and_fill_gaps, one step per attempt on a gap).      *)
(*                                                                         *)
(* The queue service is modelled statement by statement: every thread has  *)
(* a program counter, and the two threading.Lock objects are variables, so *)
(* that atomicity is a consequence of the locks and not of the model.      *)
(*                                                                         *)
(* The data fetching service is modelled over its three tables (stock,     *)
(* stock_history, blacklist) and the wall clock.  Time is counted in ticks *)
(* of a fraction of a second; one call of check_for_gaps is one step, all  *)
(* its datetime.now() reads falling on the same tick.                      *)
(***************************************************************************)
EXTENDS Integers, Sequences, FiniteSets, TLC

(***************************************************************************)
(* Bounds of the model.                                                    *)
(***************************************************************************)
\* longest ticker list handed to refresh_queues
MaxLen == 3
\* largest value of stocks_per_request a service is constructed with
MaxLimit == 2

\* refresh_interval_hours of StockQueueService.__init__
refresh_interval_hours == 24

\* the symbols ticker lists are made of
Symbols == {"A", "B"}
\* threads that ask for batches, and threads that refresh and reset
Workers == {"w1", "w2"}
Admins == {"adm"}
\* the single caller of the sequential specification
Solo == {"main"}
\* orchestrator.py: the thread of the event loop, which runs the endpoints, and
\* the executor thread the scheduler runs the daily refresh_stock_queue job in
Loop == {"loop"}
Jobs == {"job"}
Threads == Workers \cup Admins \cup Solo \cup Loop \cup Jobs
\* values datetime.now() takes in the orchestrator
QTimes == {1, 2}

None == "None"
\* an Optional[datetime] is <<>> for None and <<t>> for the time t
NoTime == <<>>
\* value of a threading.Lock nobody holds
Free == "free"

VARIABLES
    stocks_per_request,       \* StockQueueService.stocks_per_request
    history_queue,            \* pending symbols, history category
    history_processed,        \* dispatched symbols, history category
    history_lock,             \* holder of history_lock, or Free
    gap_detection_queue,      \* pending symbols, gap-detection category
    gap_detection_processed,  \* dispatched symbols, gap-detection category
    gap_detection_lock,       \* holder of gap_detection_lock, or Free
    last_refresh_time,        \* NoTime before the first refresh
    pc,                       \* position of every thread in its call
    tickers,                  \* argument of a thread's refresh_queues call
    batch_size,               \* local batch_size of a thread's get_batch
    batch,                    \* local batch of a thread's get_batch
    \* history variables (not program state)
    refreshed,                \* per category: the list the last refresh put in
    handed,                   \* per category: batches cut since that refresh (until a reset)
    resetSince,               \* per category: a reset ran since that refresh
    counts,                   \* per thread: the locals of its get_status call
    snap,                     \* per thread: the category as it was at lock acquisition
    \* the data fetching service
    now,                      \* datetime.now(), in ticks
    stock,                    \* table stock: the symbols it holds
    stock_history,            \* table stock_history: per (symbol, is_hourly) the
                              \* day_and_time values, ascending (the primary key
                              \* makes them distinct)
    blacklist,                \* table blacklist: its rows in order of id
    found,                    \* what the last check_for_gaps call returned
    justChecked,              \* history: no step was taken since that call
    saved,                    \* history: the save_stock_data_to_db call of the last step
    cleared,                  \* history: the clear_blacklist call of the last step
    \* DataFetcher.detect_and_fill_gaps: the call in progress
    fill_pc,                  \* its position
    fill_ticker,              \* its argument ticker
    fill_df,                  \* the bars its last attempt had to save
    requests,                 \* history: the yf.download calls of its last step
    max_retries,              \* its local max_retries
    retries_arg,              \* the max_retries it was called with
    fill_gaps,                \* its local gaps
    gap_index,                \* the position of its for loop in gaps
    retry_count,              \* its local retry_count
    filled_gaps,              \* its local filled_gaps
    failed_gaps,              \* its local failed_gaps
    blacklisted_gaps,         \* its local blacklisted_gaps
    total_rows_inserted,      \* its local total_rows_inserted
    outcome,                  \* what the last call returned
    \* worker_scheduler.hourly_fetch_task
    worker_pc,                \* its position in the cycle
    history_tickers,          \* its local history_tickers
    gap_tickers,              \* its local gap_tickers
    pending_at_request,       \* history: the history queue as the cycle's
                              \* request for a history batch found it
    gap_passed,               \* history: the tickers of gap_tickers the cycle
                              \* has called detect_and_fill_gaps for
    \* fetch_all_tickers_historical_data and POST /fetch-stock-data
    rate_limited,             \* the flag rate_limited
    fetch_pc,                 \* the position of the call in progress
    fetch_caller,             \* who called: the endpoint, or another caller
    fetch_tickers,            \* its argument tickers
    fetch_index,              \* idx of its for loop
    results,                  \* its local results
    failed_tickers,           \* its local failed_tickers
    rows_inserted,            \* its local total_rows_inserted
    summary,                  \* the summary the last call returned
    response,                 \* the status of the endpoint's last response
    attempted,                \* history: the tickers the loop has processed
    requested                 \* history: the last step called the quote source

queueState == <<history_queue, history_processed, history_lock,
                gap_detection_queue, gap_detection_processed, gap_detection_lock,
                last_refresh_time>>
threadState == <<pc, tickers, batch_size, batch, counts>>
ghostState == <<refreshed, handed, resetSince, snap>>
qvars == <<stocks_per_request, queueState, threadState, ghostState>>

gvars == <<now, stock, stock_history, blacklist, found, justChecked, saved,
          cleared>>

fvars == <<fill_pc, fill_ticker, fill_df, requests, max_retries, retries_arg, fill_gaps, gap_index, retry_count, filled_gaps,
           failed_gaps, blacklisted_gaps, total_rows_inserted, outcome>>

wvars == <<worker_pc, history_tickers, gap_tickers, pending_at_request,
           gap_passed>>

hvars == <<rate_limited, fetch_pc, fetch_caller, fetch_tickers, fetch_index,
           results, failed_tickers, rows_inserted, summary, response,
           attempted, requested>>

vars == <<qvars, gvars, fvars, wvars, hvars>>

(***************************************************************************)
(* Python list operations used by the service.                             *)
(***************************************************************************)
Min(a, b) == IF a <= b THEN a ELSE b

\* a slice that starts one element late
TakeShifted(s, n) == SubSeq(s, 2, Min(n + 1, Len(s)))

\* s[:n] for n >= 0
Take(s, n) == SubSeq(s, 1, Min(n, Len(s)))

\* a deletion that removes one element too many
DropOneMore(s, n) == SubSeq(s, Min(n + 1, Len(s)) + 1, Len(s))

\* s after  s[:n] = []  for n >= 0
Drop(s, n) == SubSeq(s, Min(n, Len(s)) + 1, Len(s))

\* a.extend(b)
Extend(a, b) == a \o b

\* all lists over S of length at most n
ListsUpTo(S, n) == UNION {[1..k -> S] : k \in 0..n}

TickerLists == ListsUpTo(Symbols, MaxLen)
\* the lists refresh is handed while other threads run
ConcLists == {<<>>, <<"A", "B">>, <<"B", "A", "A">>}

\* StockBatchResponse (the timestamp field is the wall clock and is left out)
StockBatchResponse(t, bs, rem, tot) ==
    [kind |-> "batch", tickers |-> t, batch_size |-> bs,
     remaining_in_queue |-> rem, total_processed |-> tot]

\* the locals of a get_status call before its first read
NoCounts ==
    [history_remaining |-> 0, history_total_processed |-> 0,
     gap_remaining |-> 0, gap_total_processed |-> 0]

NoSnap == [queue |-> <<>>, processed |-> <<>>, cat |-> None]


(***************************************************************************)
(* Thread bookkeeping.                                                     *)
(***************************************************************************)
Goto(t, label) == pc' = [pc EXCEPT ![t] = label]

SnapOf(q, p, c) == [queue |-> q, processed |-> p, cat |-> c]

\* a with block that does not wait for the lock
AcquirableAlways(lock) == TRUE

\* `with lock:` is entered only when nobody holds the lock
Acquirable(lock) == lock = Free

(***************************************************************************)
(* StockQueueService.__init__                                              *)
(***************************************************************************)
QStart(limits) ==
    /\ stocks_per_request \in limits
    /\ history_queue = <<>>
    /\ history_processed = <<>>
    /\ history_lock = Free
    /\ gap_detection_queue = <<>>
    /\ gap_detection_processed = <<>>
    /\ gap_detection_lock = Free
    /\ last_refresh_time = NoTime
    /\ pc = [t \in Threads |-> "idle"]
    /\ tickers = [t \in Threads |-> <<>>]
    /\ batch_size = [t \in Threads |-> 0]
    /\ batch = [t \in Threads |-> <<>>]
    /\ counts = [t \in Threads |-> NoCounts]
    /\ refreshed = [c \in {"history", "gap_detection"} |-> <<>>]
    /\ handed = [c \in {"history", "gap_detection"} |-> <<>>]
    /\ resetSince = [c \in {"history", "gap_detection"} |-> FALSE]
    /\ snap = [t \in Threads |-> NoSnap]

QInit == QStart(1..MaxLimit)

(***************************************************************************)
(* StockQueueService.get_batch: the history category.                      *)
(***************************************************************************)
\* the StockBatchResponse the return statement of thread t's get_batch builds:
\* the early return on an empty queue, or the one at the end of the call
GetBatchResponse(t) ==
    IF pc[t] = "gb_locked"
    THEN StockBatchResponse(<<>>, 0, 0, Len(history_processed))
    ELSE StockBatchResponse(batch[t], Len(batch[t]),
                            Len(history_queue), Len(history_processed))

\* with self.history_lock:
GetBatchLock(t) ==
    /\ pc[t] = "idle"
    /\ Acquirable(history_lock)
    /\ history_lock' = t
    /\ Goto(t, "gb_locked")
    /\ snap' = [snap EXCEPT ![t] = SnapOf(history_queue, history_processed, "history")]
    /\ UNCHANGED <<stocks_per_request, history_queue, history_processed,
                   gap_detection_queue, gap_detection_processed, gap_detection_lock,
                   last_refresh_time, tickers, batch_size, batch,
                   refreshed, handed, resetSince>>
    /\ UNCHANGED <<gvars, fvars, wvars, hvars, counts>>

\* an early return that also forgets what was dispatched
GetBatchEmptyClears(t) ==
    /\ pc[t] = "gb_locked"
    /\ history_queue = <<>>
    /\ history_processed' = <<>>
    /\ history_lock' = Free
    /\ Goto(t, "idle")
    /\ snap' = [snap EXCEPT ![t] = NoSnap]
    /\ UNCHANGED <<stocks_per_request, history_queue,
                   gap_detection_queue, gap_detection_processed, gap_detection_lock,
                   last_refresh_time, tickers, batch_size, batch,
                   refreshed, handed, resetSince>>
    /\ UNCHANGED <<gvars, fvars, wvars, hvars, counts>>

\* if not self.history_queue: return StockBatchResponse(tickers=[], ...)
GetBatchEmpty(t) ==
    /\ pc[t] = "gb_locked"
    /\ history_queue = <<>>
    /\ history_lock' = Free
    /\ Goto(t, "idle")
    /\ snap' = [snap EXCEPT ![t] = NoSnap]
    /\ UNCHANGED <<stocks_per_request, history_queue, history_processed,
                   gap_detection_queue, gap_detection_processed, gap_detection_lock,
                   last_refresh_time, tickers, batch_size, batch,
                   refreshed, handed, resetSince>>
    /\ UNCHANGED <<gvars, fvars, wvars, hvars, counts>>

\* batch_size = min(self.stocks_per_request, len(self.history_queue))
GetBatchSize(t) ==
    /\ pc[t] = "gb_locked"
    /\ history_queue # <<>>
    /\ batch_size' = [batch_size EXCEPT ![t] = Min(stocks_per_request, Len(history_queue))]
    /\ Goto(t, "gb_size")
    /\ UNCHANGED <<stocks_per_request, queueState, tickers, batch, ghostState>>
    /\ UNCHANGED <<gvars, fvars, wvars, hvars, counts>>

\* batch = self.history_queue[:batch_size]
GetBatchSlice(t) ==
    /\ pc[t] = "gb_size"
    /\ batch' = [batch EXCEPT ![t] = Take(history_queue, batch_size[t])]
    /\ handed' = [handed EXCEPT !["history"] =
                     IF resetSince["history"] THEN <<>>
                     ELSE @ \o Take(history_queue, batch_size[t])]
    /\ Goto(t, "gb_slice")
    /\ UNCHANGED <<stocks_per_request, queueState, tickers, batch_size,
                   refreshed, resetSince, snap>>
    /\ UNCHANGED <<gvars, fvars, wvars, hvars, counts>>

\* self.history_queue[:batch_size] = []
GetBatchDelete(t) ==
    /\ pc[t] = "gb_slice"
    /\ history_queue' = Drop(history_queue, batch_size[t])
    /\ Goto(t, "gb_del")
    /\ UNCHANGED <<stocks_per_request, history_processed, history_lock,
                   gap_detection_queue, gap_detection_processed, gap_detection_lock,
                   last_refresh_time, tickers, batch_size, batch, ghostState>>
    /\ UNCHANGED <<gvars, fvars, wvars, hvars, counts>>

\* self.history_processed.extend(batch)
GetBatchExtend(t) ==
    /\ pc[t] = "gb_del"
    /\ history_processed' = Extend(history_processed, batch[t])
    /\ Goto(t, "gb_ext")
    /\ UNCHANGED <<stocks_per_request, history_queue, history_lock,
                   gap_detection_queue, gap_detection_processed, gap_detection_lock,
                   last_refresh_time, tickers, batch_size, batch, ghostState>>
    /\ UNCHANGED <<gvars, fvars, wvars, hvars, counts>>

\* a return that leaves the with block without releasing the lock
GetBatchReturnKeepsLock(t) ==
    /\ pc[t] = "gb_ext"
    /\ batch' = [batch EXCEPT ![t] = <<>>]
    /\ batch_size' = [batch_size EXCEPT ![t] = 0]
    /\ snap' = [snap EXCEPT ![t] = NoSnap]
    /\ Goto(t, "idle")
    /\ UNCHANGED <<stocks_per_request, history_queue, history_processed, history_lock,
                   gap_detection_queue, gap_detection_processed, gap_detection_lock,
                   last_refresh_time, tickers, refreshed, handed, resetSince>>
    /\ UNCHANGED <<gvars, fvars, wvars, hvars, counts>>

\* return StockBatchResponse(tickers=batch, ...), leaving the with block
GetBatchReturn(t) ==
    /\ pc[t] = "gb_ext"
    /\ history_lock' = Free
    /\ batch' = [batch EXCEPT ![t] = <<>>]
    /\ batch_size' = [batch_size EXCEPT ![t] = 0]
    /\ snap' = [snap EXCEPT ![t] = NoSnap]
    /\ Goto(t, "idle")
    /\ UNCHANGED <<stocks_per_request, history_queue, history_processed,
                   gap_detection_queue, gap_detection_processed, gap_detection_lock,
                   last_refresh_time, tickers, refreshed, handed, resetSince>>
    /\ UNCHANGED <<gvars, fvars, wvars, hvars, counts>>

(***************************************************************************)
(* StockQueueService.get_gap_detection_batch: the gap-detection category.  *)
(***************************************************************************)
\* the StockBatchResponse the return statement of get_gap_detection_batch builds
GetGapDetectionBatchResponse(t) ==
    IF pc[t] = "gd_locked"
    THEN StockBatchResponse(<<>>, 0, 0, Len(gap_detection_processed))
    ELSE StockBatchResponse(batch[t], Len(batch[t]),
                            Len(gap_detection_queue), Len(gap_detection_processed))

\* with self.gap_detection_lock:
GetGapDetectionBatchLock(t) ==
    /\ pc[t] = "idle"
    /\ Acquirable(gap_detection_lock)
    /\ gap_detection_lock' = t
    /\ Goto(t, "gd_locked")
    /\ snap' = [snap EXCEPT ![t] =
                   SnapOf(gap_detection_queue, gap_detection_processed, "gap_detection")]
    /\ UNCHANGED <<stocks_per_request, history_queue, history_processed, history_lock,
                   gap_detection_queue, gap_detection_processed,
                   last_refresh_time, tickers, batch_size, batch,
                   refreshed, handed, resetSince>>
    /\ UNCHANGED <<gvars, fvars, wvars, hvars, counts>>

\* if not self.gap_detection_queue: return StockBatchResponse(tickers=[], ...)
GetGapDetectionBatchEmpty(t) ==
    /\ pc[t] = "gd_locked"
    /\ gap_detection_queue = <<>>
    /\ gap_detection_lock' = Free
    /\ Goto(t, "idle")
    /\ snap' = [snap EXCEPT ![t] = NoSnap]
    /\ UNCHANGED <<stocks_per_request, history_queue, history_processed, history_lock,
                   gap_detection_queue, gap_detection_processed,
                   last_refresh_time, tickers, batch_size, batch,
                   refreshed, handed, resetSince>>
    /\ UNCHANGED <<gvars, fvars, wvars, hvars, counts>>

\* batch_size = min(self.stocks_per_request, len(self.gap_detection_queue))
GetGapDetectionBatchSize(t) ==
    /\ pc[t] = "gd_locked"
    /\ gap_detection_queue # <<>>
    /\ batch_size' = [batch_size EXCEPT ![t] =
                         Min(stocks_per_request, Len(gap_detection_queue))]
    /\ Goto(t, "gd_size")
    /\ UNCHANGED <<stocks_per_request, queueState, tickers, batch, ghostState>>
    /\ UNCHANGED <<gvars, fvars, wvars, hvars, counts>>

\* batch = self.gap_detection_queue[:batch_size]
GetGapDetectionBatchSlice(t) ==
    /\ pc[t] = "gd_size"
    /\ batch' = [batch EXCEPT ![t] = Take(gap_detection_queue, batch_size[t])]
    /\ handed' = [handed EXCEPT !["gap_detection"] =
                     IF resetSince["gap_detection"] THEN <<>>
                     ELSE @ \o Take(gap_detection_queue, batch_size[t])]
    /\ Goto(t, "gd_slice")
    /\ UNCHANGED <<stocks_per_request, queueState, tickers, batch_size,
                   refreshed, resetSince, snap>>
    /\ UNCHANGED <<gvars, fvars, wvars, hvars, counts>>

\* self.gap_detection_queue[:batch_size] = []
GetGapDetectionBatchDelete(t) ==
    /\ pc[t] = "gd_slice"
    /\ gap_detection_queue' = Drop(gap_detection_queue, batch_size[t])
    /\ Goto(t, "gd_del")
    /\ UNCHANGED <<stocks_per_request, history_queue, history_processed, history_lock,
                   gap_detection_processed, gap_detection_lock,
                   last_refresh_time, tickers, batch_size, batch, ghostState>>
    /\ UNCHANGED <<gvars, fvars, wvars, hvars, counts>>

\* self.gap_detection_processed.extend(batch)
GetGapDetectionBatchExtend(t) ==
    /\ pc[t] = "gd_del"
    /\ gap_detection_processed' = Extend(gap_detection_processed, batch[t])
    /\ Goto(t, "gd_ext")
    /\ UNCHANGED <<stocks_per_request, history_queue, history_processed, history_lock,
                   gap_detection_queue, gap_detection_lock,
                   last_refresh_time, tickers, batch_size, batch, ghostState>>
    /\ UNCHANGED <<gvars, fvars, wvars, hvars, counts>>

\* return StockBatchResponse(tickers=batch, ...), leaving the with block
GetGapDetectionBatchReturn(t) ==
    /\ pc[t] = "gd_ext"
    /\ gap_detection_lock' = Free
    /\ batch' = [batch EXCEPT ![t] = <<>>]
    /\ batch_size' = [batch_size EXCEPT ![t] = 0]
    /\ snap' = [snap EXCEPT ![t] = NoSnap]
    /\ Goto(t, "idle")
    /\ UNCHANGED <<stocks_per_request, history_queue, history_processed, history_lock,
                   gap_detection_queue, gap_detection_processed,
                   last_refresh_time, tickers, refreshed, handed, resetSince>>
    /\ UNCHANGED <<gvars, fvars, wvars, hvars, counts>>

(***************************************************************************)
(* StockQueueService.refresh_queues(tickers)                               *)
(***************************************************************************)
\* with self.history_lock:
RefreshLockHistory(t, tk) ==
    /\ pc[t] = "idle"
    /\ Acquirable(history_lock)
    /\ history_lock' = t
    /\ tickers' = [tickers EXCEPT ![t] = tk]
    /\ Goto(t, "rf_h_locked")
    /\ UNCHANGED <<stocks_per_request, history_queue, history_processed,
                   gap_detection_queue, gap_detection_processed, gap_detection_lock,
                   last_refresh_time, batch_size, batch, ghostState>>
    /\ UNCHANGED <<gvars, fvars, wvars, hvars, counts>>

\* self.history_queue = tickers.copy()
RefreshHistoryQueue(t) ==
    /\ pc[t] = "rf_h_locked"
    /\ history_queue' = tickers[t]
    /\ refreshed' = [refreshed EXCEPT !["history"] = tickers[t]]
    /\ handed' = [handed EXCEPT !["history"] = <<>>]
    /\ resetSince' = [resetSince EXCEPT !["history"] = FALSE]
    /\ Goto(t, "rf_h_queue")
    /\ UNCHANGED <<stocks_per_request, history_processed, history_lock,
                   gap_detection_queue, gap_detection_processed, gap_detection_lock,
                   last_refresh_time, tickers, batch_size, batch, snap>>
    /\ UNCHANGED <<gvars, fvars, wvars, hvars, counts>>

\* self.history_processed = [], leaving the with block
RefreshHistoryProcessed(t) ==
    /\ pc[t] = "rf_h_queue"
    /\ history_processed' = <<>>
    /\ history_lock' = Free
    /\ Goto(t, "rf_h_done")
    /\ UNCHANGED <<stocks_per_request, history_queue,
                   gap_detection_queue, gap_detection_processed, gap_detection_lock,
                   last_refresh_time, tickers, batch_size, batch, ghostState>>
    /\ UNCHANGED <<gvars, fvars, wvars, hvars, counts>>

\* with self.gap_detection_lock:
RefreshLockGapDetection(t) ==
    /\ pc[t] = "rf_h_done"
    /\ Acquirable(gap_detection_lock)
    /\ gap_detection_lock' = t
    /\ Goto(t, "rf_g_locked")
    /\ UNCHANGED <<stocks_per_request, history_queue, history_processed, history_lock,
                   gap_detection_queue, gap_detection_processed,
                   last_refresh_time, tickers, batch_size, batch, ghostState>>
    /\ UNCHANGED <<gvars, fvars, wvars, hvars, counts>>

\* self.gap_detection_queue = tickers.copy()
RefreshGapDetectionQueue(t) ==
    /\ pc[t] = "rf_g_locked"
    /\ gap_detection_queue' = tickers[t]
    /\ refreshed' = [refreshed EXCEPT !["gap_detection"] = tickers[t]]
    /\ handed' = [handed EXCEPT !["gap_detection"] = <<>>]
    /\ resetSince' = [resetSince EXCEPT !["gap_detection"] = FALSE]
    /\ Goto(t, "rf_g_queue")
    /\ UNCHANGED <<stocks_per_request, history_queue, history_processed, history_lock,
                   gap_detection_processed, gap_detection_lock,
                   last_refresh_time, tickers, batch_size, batch, snap>>
    /\ UNCHANGED <<gvars, fvars, wvars, hvars, counts>>

\* self.gap_detection_processed = [], leaving the with block
RefreshGapDetectionProcessed(t) ==
    /\ pc[t] = "rf_g_queue"
    /\ gap_detection_processed' = <<>>
    /\ gap_detection_lock' = Free
    /\ Goto(t, "rf_g_done")
    /\ UNCHANGED <<stocks_per_request, history_queue, history_processed, history_lock,
                   gap_detection_queue,
                   last_refresh_time, tickers, batch_size, batch, ghostState>>
    /\ UNCHANGED <<gvars, fvars, wvars, hvars, counts>>

\* self.last_refresh_time = datetime.now(): the clock never runs backwards
RefreshTime(t) ==
    /\ pc[t] = "rf_g_done"
    /\ \E time \in QTimes :
          /\ IF last_refresh_time = NoTime THEN TRUE ELSE time >= last_refresh_time[1]
          /\ last_refresh_time' = <<time>>
    /\ tickers' = [tickers EXCEPT ![t] = <<>>]
    /\ Goto(t, "idle")
    /\ UNCHANGED <<stocks_per_request, history_queue, history_processed, history_lock,
                   gap_detection_queue, gap_detection_processed, gap_detection_lock,
                   batch_size, batch, ghostState>>
    /\ UNCHANGED <<gvars, fvars, wvars, hvars, counts>>

(***************************************************************************)
(* StockQueueService.reset_queues                                          *)
(***************************************************************************)
\* with self.history_lock:
ResetLockHistory(t) ==
    /\ pc[t] = "idle"
    /\ Acquirable(history_lock)
    /\ history_lock' = t
    /\ snap' = [snap EXCEPT ![t] = SnapOf(history_queue, history_processed, "history")]
    /\ Goto(t, "rs_h_locked")
    /\ UNCHANGED <<stocks_per_request, history_queue, history_processed,
                   gap_detection_queue, gap_detection_processed, gap_detection_lock,
                   last_refresh_time, tickers, batch_size, batch,
                   refreshed, handed, resetSince>>
    /\ UNCHANGED <<gvars, fvars, wvars, hvars, counts>>

\* self.history_queue.extend(self.history_processed)
ResetHistoryExtend(t) ==
    /\ pc[t] = "rs_h_locked"
    /\ history_queue' = Extend(history_queue, history_processed)
    /\ resetSince' = [resetSince EXCEPT !["history"] = TRUE]
    /\ handed' = [handed EXCEPT !["history"] = <<>>]
    /\ Goto(t, "rs_h_ext")
    /\ UNCHANGED <<stocks_per_request, history_processed, history_lock,
                   gap_detection_queue, gap_detection_processed, gap_detection_lock,
                   last_refresh_time, tickers, batch_size, batch,
                   refreshed, snap>>
    /\ UNCHANGED <<gvars, fvars, wvars, hvars, counts>>

\* self.history_processed.clear(), leaving the with block
ResetHistoryClear(t) ==
    /\ pc[t] = "rs_h_ext"
    /\ history_processed' = <<>>
    /\ history_lock' = Free
    /\ Goto(t, "rs_h_done")
    /\ UNCHANGED <<stocks_per_request, history_queue,
                   gap_detection_queue, gap_detection_processed, gap_detection_lock,
                   last_refresh_time, tickers, batch_size, batch, ghostState>>
    /\ UNCHANGED <<gvars, fvars, wvars, hvars, counts>>

\* with self.gap_detection_lock:
ResetLockGapDetection(t) ==
    /\ pc[t] = "rs_h_done"
    /\ Acquirable(gap_detection_lock)
    /\ gap_detection_lock' = t
    /\ snap' = [snap EXCEPT ![t] =
                   SnapOf(gap_detection_queue, gap_detection_processed, "gap_detection")]
    /\ Goto(t, "rs_g_locked")
    /\ UNCHANGED <<stocks_per_request, history_queue, history_processed, history_lock,
                   gap_detection_queue, gap_detection_processed,
                   last_refresh_time, tickers, batch_size, batch,
                   refreshed, handed, resetSince>>
    /\ UNCHANGED <<gvars, fvars, wvars, hvars, counts>>

\* self.gap_detection_queue.extend(self.gap_detection_processed)
ResetGapDetectionExtend(t) ==
    /\ pc[t] = "rs_g_locked"
    /\ gap_detection_queue' = Extend(gap_detection_queue, gap_detection_processed)
    /\ resetSince' = [resetSince EXCEPT !["gap_detection"] = TRUE]
    /\ handed' = [handed EXCEPT !["gap_detection"] = <<>>]
    /\ Goto(t, "rs_g_ext")
    /\ UNCHANGED <<stocks_per_request, history_queue, history_processed, history_lock,
                   gap_detection_processed, gap_detection_lock,
                   last_refresh_time, tickers, batch_size, batch,
                   refreshed, snap>>
    /\ UNCHANGED <<gvars, fvars, wvars, hvars, counts>>

\* self.gap_detection_processed.clear(), leaving the with block
ResetGapDetectionClear(t) ==
    /\ pc[t] = "rs_g_ext"
    /\ gap_detection_processed' = <<>>
    /\ gap_detection_lock' = Free
    /\ Goto(t, "rs_g_done")
    /\ UNCHANGED <<stocks_per_request, history_queue, history_processed, history_lock,
                   gap_detection_queue,
                   last_refresh_time, tickers, batch_size, batch, ghostState>>
    /\ UNCHANGED <<gvars, fvars, wvars, hvars, counts>>

\* the dict reset_queues returns
ResetResponse ==
    [kind |-> "reset", success |-> TRUE,
     history_queue |-> Len(history_queue),
     gap_detection_queue |-> Len(gap_detection_queue)]

\* return {"success": True, "history_queue": len(...), "gap_detection_queue": len(...)}
ResetReturn(t) ==
    /\ pc[t] = "rs_g_done"
    /\ snap' = [snap EXCEPT ![t] = NoSnap]
    /\ Goto(t, "idle")
    /\ UNCHANGED <<stocks_per_request, queueState, tickers, batch_size, batch,
                   refreshed, handed, resetSince>>
    /\ UNCHANGED <<gvars, fvars, wvars, hvars, counts>>

(***************************************************************************)
(* The data fetching service: clock, tables, and what yfinance returns.    *)
(***************************************************************************)
\* ticks in one second: the resolution of the clock
TicksPerSecond == 2
\* most rows the blacklist table grows to
MaxBlacklist == 1

Second == TicksPerSecond
Hour == 3600 * Second
Day == 24 * Hour

\* timedelta(days=730), timedelta(days=7), timedelta(days=7) of _check_hourly_gaps
HourlyLookbackDays == 730
HourlyGapDays == 7
HourlyRecencyDays == 7
\* timedelta(days=30), timedelta(days=1), timedelta(days=1) of _check_minute_gaps
MinuteLookbackDays == 30
MinuteGapDays == 1
MinuteRecencyDays == 1
\* GapDetector.blacklist_expiration_time, in hours
blacklist_expiration_time == 24

\* the symbols the data fetching service works on
GapSymbols == {"AAPL", "MSFT"}

\* the clock at the start, and the later instants it is read at: half a
\* second on (the same second), and five seconds on
StartTime == 800 * Day
LateTime == StartTime + 5 * Second
Instants == {StartTime, StartTime + 1, LateTime}

\* n timestamps, step apart, from start on
Run(start, step, n) == [i \in 1..n |-> start + (i - 1) * step]

\* Hourly bars yfinance returns for AAPL (their index, ascending).
\* From 735 days to exactly 7 days before StartTime, every interval exactly
\* 7 days:
HourlyFull == Run(StartTime - 735 * Day, 7 * Day, 105)
\* the same with one bar, 413 days before StartTime, missing:
HourlyHole == Run(StartTime - 735 * Day, 7 * Day, 46)
              \o Run(StartTime - 406 * Day, 7 * Day, 58)
\* a tick less than 730 days back, one interval of 7 days and a tick, and a
\* last bar exactly 7 days before StartTime:
HourlyEdge == Run(StartTime - 730 * Day + 1, 7 * Day, 52)
              \o Run(StartTime - 366 * Day + 2, 7 * Day, 52)
              \o <<StartTime - 7 * Day>>

\* a single bar, exactly 7 days before StartTime:
HourlyOne == <<StartTime - 7 * Day>>

\* Minute bars yfinance returns for AAPL.
\* From 30 days to exactly 1 day before StartTime, every interval exactly
\* 1 day:
MinuteFull == Run(StartTime - 30 * Day, Day, 30)
\* three bars saved long ago, the first of them 730 days before LateTime,
\* the next 2 days later, the last 1 day and a tick after that:
MinuteOld == <<LateTime - 730 * Day, LateTime - 728 * Day, LateTime - 727 * Day + 1>>
\* a single bar, exactly 1 day before StartTime:
MinuteOne == <<StartTime - Day>>

\* the non-empty frames a download of (ticker, is_hourly) can yield
YfDownload(ticker, is_hourly) ==
    IF ticker # "AAPL" THEN {}
    ELSE IF is_hourly THEN {HourlyFull, HourlyHole, HourlyEdge, HourlyOne}
    ELSE {MinuteFull, MinuteOld, MinuteOne}

\* the values of a sequence
Range(s) == {s[i] : i \in 1..Len(s)}

\* order by day_and_time
Earlier(a, b) == a < b
OrderBy(rows) == SortSeq(rows, Earlier)

\* before any check_for_gaps call
NoResult == [symbol |-> None, detected |-> <<>>, gaps |-> <<>>,
             read_ok |-> TRUE, raised |-> FALSE]

\* before any detect_and_fill_gaps call
NoOutcome == [kind |-> "none"]

\* no call of clear_blacklist
NoClear == [ticker |-> <<>>, count |-> -1]

\* no call of save_stock_data_to_db
NoSave == [ticker |-> None, is_hourly |-> FALSE, df |-> <<>>, raised |-> FALSE]

GapInit ==
    /\ fill_pc = "idle"
    /\ fill_ticker = None
    /\ fill_df = <<>>
    /\ requests = 0
    /\ max_retries = 0
    /\ retries_arg = <<>>
    /\ fill_gaps = <<>>
    /\ gap_index = 0
    /\ retry_count = 0
    /\ filled_gaps = <<>>
    /\ failed_gaps = <<>>
    /\ blacklisted_gaps = <<>>
    /\ total_rows_inserted = 0
    /\ outcome = NoOutcome
    /\ now = StartTime
    /\ stock = {}
    /\ stock_history = [k \in GapSymbols \X BOOLEAN |-> <<>>]
    /\ blacklist = <<>>
    /\ found = NoResult
    /\ justChecked = FALSE
    /\ saved = NoSave
    /\ cleared = NoClear
    /\ worker_pc = "cycle"
    /\ history_tickers = <<>>
    /\ gap_tickers = <<>>
    /\ pending_at_request = <<>>
    /\ gap_passed = <<>>
    /\ rate_limited = FALSE
    /\ fetch_pc = "idle"
    /\ fetch_caller = "none"
    /\ fetch_tickers = <<>>
    /\ fetch_index = 0
    /\ results = [t \in {} |-> [success |-> FALSE, rows_inserted |-> 0, error |-> ""]]
    /\ failed_tickers = <<>>
    /\ rows_inserted = 0
    /\ summary = <<>>
    /\ response = "none"
    /\ attempted = <<>>
    /\ requested = FALSE

(***************************************************************************)
(* GapDetector                                                             *)
(***************************************************************************)
\* the hourly check looking back no further than the minute check
HourlyLookbackOfMinutes == MinuteLookbackDays * Day

HourlyLookback == HourlyLookbackDays * Day
MinuteLookback == MinuteLookbackDays * Day

\* select day_and_time where stock_symbol == symbol and is_hourly == True
\* order by day_and_time
HourlyData(symbol) == stock_history[<<symbol, TRUE>>]

\* a minute query that forgets its is_hourly condition
MinuteDataOfHourly(symbol) == stock_history[<<symbol, TRUE>>]

\* the same where is_hourly == False
MinuteData(symbol) == stock_history[<<symbol, FALSE>>]

\* a comparison that also takes an interval equal to the threshold
GapExceedsOrEqual(time_diff, threshold) == time_diff >= threshold

\* time_diff > timedelta(days=...)
GapExceeds(time_diff, threshold) == time_diff > threshold

\* for i in range(len(data) - 1): the pairs (data[i], data[i + 1]) further
\* apart than the threshold, in order
InteriorGaps(data, threshold, is_hourly) ==
    LET pairs == [i \in 1..(Len(data) - 1) |-> <<data[i], data[i + 1], is_hourly>>]
        TooFar(g) == GapExceeds(g[2] - g[1], threshold)
    IN  SelectSeq(pairs, TooFar)

\* boundary checks that also fire when a row lies exactly on the boundary
BoundaryGapsInclusive(data, lookback, recency, is_hourly) ==
    LET oldest_time == data[1]
        newest_time == data[Len(data)]
    IN  (IF oldest_time >= now - lookback
         THEN << <<now - lookback, oldest_time, is_hourly>> >> ELSE <<>>)
        \o (IF newest_time <= now - recency
            THEN << <<newest_time, now, is_hourly>> >> ELSE <<>>)

\* the gap before the oldest row and the gap after the newest row
BoundaryGaps(data, lookback, recency, is_hourly) ==
    LET oldest_time == data[1]
        newest_time == data[Len(data)]
    IN  (IF oldest_time > now - lookback
         THEN << <<now - lookback, oldest_time, is_hourly>> >> ELSE <<>>)
        \o (IF newest_time < now - recency
            THEN << <<newest_time, now, is_hourly>> >> ELSE <<>>)

CheckHourlyGaps(symbol) ==
    LET hourly_data == HourlyData(symbol)
    IN  IF hourly_data = <<>>
        THEN << <<now - HourlyLookback, now, TRUE>> >>
        ELSE InteriorGaps(hourly_data, HourlyGapDays * Day, TRUE)
             \o BoundaryGaps(hourly_data, HourlyLookback, HourlyRecencyDays * Day, TRUE)

CheckMinuteGaps(symbol) ==
    LET minute_data == MinuteData(symbol)
    IN  IF minute_data = <<>>
        THEN << <<now - MinuteLookback, now, FALSE>> >>
        ELSE InteriorGaps(minute_data, MinuteGapDays * Day, FALSE)
             \o BoundaryGaps(minute_data, MinuteLookback, MinuteRecencyDays * Day, FALSE)

\* a time left as it is
KeepMicrosecond(t) == t

\* datetime.replace(microsecond=0): the time without its fraction of a second
ReplaceMicrosecond(t) == t - (t % TicksPerSecond)

\* a filter for which a blacklist entry never expires
FilterBlacklistedGapsForever(symbol, gaps) ==
    LET OfSymbol(entry) == entry.stock_symbol = symbol
        blacklist_entries == SelectSeq(blacklist, OfSymbol)
        active_blacklist ==
            {ReplaceMicrosecond(blacklist_entries[i].timestamp) :
                i \in 1..Len(blacklist_entries)}
        Kept(g) == ReplaceMicrosecond(g[1]) \notin active_blacklist
    IN  SelectSeq(gaps, Kept)

\* a filter that reads the entries of every symbol
FilterBlacklistedGapsOfAnySymbol(symbol, gaps) ==
    LET expiration_cutoff == now - blacklist_expiration_time * Hour
        active_blacklist ==
            {ReplaceMicrosecond(blacklist[i].timestamp) :
                i \in {j \in 1..Len(blacklist) :
                         blacklist[j].time_added >= expiration_cutoff}}
        Kept(g) == ReplaceMicrosecond(g[1]) \notin active_blacklist
    IN  SelectSeq(gaps, Kept)

FilterBlacklistedGaps(symbol, gaps) ==
    LET OfSymbol(entry) == entry.stock_symbol = symbol
        blacklist_entries == SelectSeq(blacklist, OfSymbol)
        expiration_cutoff == now - blacklist_expiration_time * Hour
        active_blacklist ==
            {ReplaceMicrosecond(blacklist_entries[i].timestamp) :
                i \in {j \in 1..Len(blacklist_entries) :
                         blacklist_entries[j].time_added >= expiration_cutoff}}
        Kept(g) == ReplaceMicrosecond(g[1]) \notin active_blacklist
    IN  IF gaps = <<>> THEN gaps
        ELSE IF blacklist_entries = <<>> THEN gaps
        ELSE SelectSeq(gaps, Kept)

\* the list check_for_gaps hands to the blacklist filter
DetectedGaps(symbol) ==
    IF symbol \notin stock THEN <<>>
    ELSE CheckHourlyGaps(symbol) \o CheckMinuteGaps(symbol)

\* a check that does not look the symbol up in the stock table
CheckForGapsOfAnySymbol(symbol) ==
    FilterBlacklistedGaps(symbol, CheckHourlyGaps(symbol) \o CheckMinuteGaps(symbol))

CheckForGaps(symbol) ==
    IF symbol \notin stock THEN <<>>
    ELSE FilterBlacklistedGaps(symbol, DetectedGaps(symbol))

\* a check_for_gaps that deletes the blacklist rows it finds expired
CallCheckForGapsPurging(symbol) ==
    LET Alive(row) == now - row.time_added <= blacklist_expiration_time * Hour
    IN  /\ found' = [symbol |-> symbol,
                     detected |-> DetectedGaps(symbol),
                     gaps |-> CheckForGaps(symbol),
                     read_ok |-> TRUE, raised |-> FALSE]
        /\ justChecked' = TRUE
        /\ cleared' = NoClear
        /\ saved' = NoSave
        /\ blacklist' = SelectSeq(blacklist, Alive)
        /\ UNCHANGED <<now, stock, stock_history, qvars, fvars, wvars, hvars>>

\* gaps = self.gap_detector.check_for_gaps(symbol)
CallCheckForGaps(symbol) ==
    /\ found' = [symbol |-> symbol,
                 detected |-> DetectedGaps(symbol),
                 gaps |-> CheckForGaps(symbol),
                 read_ok |-> TRUE, raised |-> FALSE]
    /\ justChecked' = TRUE
    /\ cleared' = NoClear
    /\ saved' = NoSave
    /\ UNCHANGED <<now, stock, stock_history, blacklist, qvars, fvars, wvars, hvars>>

(***************************************************************************)
(* The writers of the tables, and the clock.                               *)
(***************************************************************************)
\* update_stocks_in_db_from_polygon inserts the row of a symbol it is new to
UpdateStockFromPolygon(ticker) ==
    /\ ticker \notin stock
    /\ stock' = stock \cup {ticker}
    /\ found' = NoResult
    /\ justChecked' = FALSE
    /\ cleared' = NoClear
    /\ saved' = NoSave
    /\ UNCHANGED <<now, stock_history, blacklist, qvars, fvars, wvars, hvars>>

\* DataFetcher.ensure_stock_exists
EnsureStockExists(ticker) == stock \cup {ticker}

\* DataFetcher.save_stock_data_to_db for a non-empty df: the stock row is
\* committed first; the rows of df are committed together, and a row whose
\* key is in the table already makes that commit fail and roll back
\* what a call of save_stock_data_to_db with a non-empty frame was given, and
\* whether its commit raised: it does when a row of the frame has the primary
\* key (stock_symbol, day_and_time, is_hourly) of a stored row
SaveCall(ticker, df, is_hourly) ==
    [ticker |-> ticker, is_hourly |-> is_hourly, df |-> df,
     raised |-> Range(df) \cap Range(stock_history[<<ticker, is_hourly>>]) # {}]

SaveStockDataToDb(ticker, df, is_hourly) ==
    LET key == <<ticker, is_hourly>>
    IN  /\ stock' = EnsureStockExists(ticker)
        /\ stock_history' =
              IF Range(df) \cap Range(stock_history[key]) = {}
              THEN [stock_history EXCEPT ![key] = OrderBy(@ \o df)]
              ELSE stock_history
        /\ found' = NoResult
        /\ justChecked' = FALSE
        /\ cleared' = NoClear
        /\ saved' = SaveCall(ticker, df, is_hourly)
        /\ UNCHANGED <<now, blacklist, qvars, fvars, wvars, hvars>>

\* DataFetcher.add_to_blacklist(ticker, gap_start), called by
\* detect_and_fill_gaps for a gap of the list check_for_gaps returned; the
\* clock is still at the tick of that call
\* (rows: the number of rows the table is let grow to)
AddToBlacklistRows(ticker, gap_start, rows) ==
    /\ found.symbol = ticker
    /\ \E i \in 1..Len(found.gaps) : found.gaps[i][1] = gap_start
    /\ Len(blacklist) < rows
    /\ blacklist' = Append(blacklist, [stock_symbol |-> ticker,
                                       timestamp |-> gap_start,
                                       time_added |-> now,
                                       is_hourly |-> TRUE])
    /\ justChecked' = FALSE
    /\ cleared' = NoClear
    /\ saved' = NoSave
    /\ UNCHANGED <<now, stock, stock_history, found, qvars, fvars, wvars, hvars>>

AddToBlacklist(ticker, gap_start) ==
    AddToBlacklistRows(ticker, gap_start, MaxBlacklist)

\* str.upper() on the symbols a caller writes
Upper(ticker) ==
    CASE ticker = "aapl" -> "AAPL"
      [] ticker = "msft" -> "MSFT"
      [] OTHER -> ticker

\* `if ticker:` -- an argument that is given and not the empty string
Truthy(ticker) == ticker # <<>> /\ ticker[1] # ""

\* a clear_blacklist that deletes every row whatever its argument
ClearBlacklistAll(ticker) ==
    /\ blacklist' = <<>>
    /\ cleared' = [ticker |-> ticker, count |-> Len(blacklist)]
    /\ found' = NoResult
    /\ justChecked' = FALSE
    /\ saved' = NoSave
    /\ UNCHANGED <<now, stock, stock_history, qvars, fvars, wvars, hvars>>

\* DataFetcher.clear_blacklist(ticker) (DatabaseService.clear_blacklist is the
\* same): delete(Blacklist).where(stock_symbol == ticker.upper()), or
\* delete(Blacklist) without an argument; returns result.rowcount
ClearBlacklist(ticker) ==
    LET Deleted(row) == ~Truthy(ticker) \/ row.stock_symbol = Upper(ticker[1])
        Left(row) == ~Deleted(row)
    IN  /\ blacklist' = SelectSeq(blacklist, Left)
        /\ cleared' = [ticker |-> ticker, count |-> Len(SelectSeq(blacklist, Deleted))]
        /\ found' = NoResult
        /\ justChecked' = FALSE
        /\ saved' = NoSave
        /\ UNCHANGED <<now, stock, stock_history, qvars, fvars, wvars, hvars>>

\* the starts of the gaps a list holds
GapStarts(gaps) == {gaps[i][1] : i \in 1..Len(gaps)}

\* time passes: the clock moves on to a later one of the instants T
Tick(T) ==
    /\ \E t \in T : t > now /\ now' = t
    /\ found' = NoResult
    /\ justChecked' = FALSE
    /\ cleared' = NoClear
    /\ saved' = NoSave
    /\ UNCHANGED <<stock, stock_history, blacklist, qvars, fvars, wvars, hvars>>

\* The data fetching service with the clock read at the instants T and with
\* yfinance returning the frames F for the history and having nothing to fill
\* the gaps of the symbols B with.
GapNext(T, B, F) ==
    \/ \E ticker \in GapSymbols : UpdateStockFromPolygon(ticker)
    \/ \E ticker \in GapSymbols, is_hourly \in BOOLEAN :
          \E df \in F \cap YfDownload(ticker, is_hourly) :
             SaveStockDataToDb(ticker, df, is_hourly)
    \/ \E symbol \in GapSymbols : CallCheckForGaps(symbol)
    \/ \E ticker \in B :
          \E gap_start \in GapStarts(found.gaps) : AddToBlacklist(ticker, gap_start)
    \/ Tick(T)

\* most rows of the blacklist table next to clear_blacklist
MaxCleared == 2

\* the arguments of clear_blacklist: none, a symbol, a symbol in lower case
ClearArgs == {<<>>, <<"AAPL">>, <<"MSFT">>, <<"aapl">>}

\* The data fetching service with clear_blacklist: as GapNext, every symbol
\* having gaps that cannot be filled.
ClearNext(T, F) ==
    \/ \E ticker \in GapSymbols : UpdateStockFromPolygon(ticker)
    \/ \E ticker \in GapSymbols, is_hourly \in BOOLEAN :
          \E df \in F \cap YfDownload(ticker, is_hourly) :
             SaveStockDataToDb(ticker, df, is_hourly)
    \/ \E symbol \in GapSymbols : CallCheckForGaps(symbol)
    \/ \E ticker \in GapSymbols :
          \E gap_start \in GapStarts(found.gaps) :
             AddToBlacklistRows(ticker, gap_start, MaxCleared)
    \/ \E ticker \in ClearArgs : ClearBlacklist(ticker)
    \/ Tick(T)

(***************************************************************************)
(* DataFetcher.detect_and_fill_gaps                                        *)
(***************************************************************************)
\* DataFetcher(max_gap_fill_retries=...): the retries of an instance
max_gap_fill_retries == 2

\* the max_retries arguments of a call
RetryArgs == {<<>>, <<0>>, <<1>>, <<-1>>}

\* the hourly bar HourlyHole lacks
HourlyPatch == <<StartTime - 413 * Day>>

\* the non-empty frames a download made to fill a gap can yield
YfFill(ticker, is_hourly) ==
    IF ticker # "AAPL" THEN {}
    ELSE IF is_hourly THEN {HourlyFull, HourlyPatch}
    ELSE {MinuteFull}

\* a blacklist filter that hands the gaps on when the blacklist cannot be read
FilterOutcomeFailOpen(symbol, gaps, read_ok) ==
    IF gaps = <<>> THEN [raised |-> FALSE, gaps |-> gaps]
    ELSE IF ~read_ok THEN [raised |-> FALSE, gaps |-> gaps]
    ELSE [raised |-> FALSE, gaps |-> FilterBlacklistedGaps(symbol, gaps)]

\* _filter_blacklisted_gaps called by check_for_gaps: it reads the blacklist
\* unless there is no gap, and nothing catches the error of that read
FilterOutcome(symbol, gaps, read_ok) ==
    IF gaps = <<>> THEN [raised |-> FALSE, gaps |-> gaps]
    ELSE IF ~read_ok THEN [raised |-> TRUE, gaps |-> <<>>]
    ELSE [raised |-> FALSE, gaps |-> FilterBlacklistedGaps(symbol, gaps)]

\* return {"ticker": ..., "gaps_found": 0, "gaps_filled": 0, "message": ...}
NoGapsOutcome(ticker) ==
    [ticker |-> ticker, gaps_found |-> 0, gaps_filled |-> 0,
     message |-> "No gaps detected"]

\* the dict returned after the loop over the gaps
FilledOutcome(ticker, gaps, filled, failed, blacklisted, total) ==
    [ticker |-> ticker,
     gaps_found |-> Len(gaps),
     gaps_filled |-> Len(filled),
     gaps_failed |-> Len(failed),
     gaps_blacklisted |-> Len(blacklisted),
     total_rows_inserted |-> total,
     filled_gaps |-> filled,
     failed_gaps |-> failed,
     blacklisted_gaps |-> blacklisted]

\* max_retries = max_retries or self.max_gap_fill_retries
EffectiveRetries(arg) ==
    IF arg = <<>> THEN max_gap_fill_retries
    ELSE IF arg[1] = 0 THEN max_gap_fill_retries
    ELSE arg[1]

\* while retry_count < max_retries and not gap_filled, at retry_count = 0:
\* a bound below 1 leaves the loop without an attempt
WhileOrAfter(bound) ==
    IF 0 < bound THEN "attempt" ELSE "exhausted"

\* the call up to its for loop: check_for_gaps, and the early return
DetectAndFillGaps(ticker, arg, read_ok) ==
    \E detected \in {DetectedGaps(ticker)} :
    \E checked \in {FilterOutcome(ticker, detected, read_ok)} :
        /\ fill_pc \in {"idle", "done", "raised"}
        /\ found' = [symbol |-> ticker, detected |-> detected,
                     gaps |-> checked.gaps,
                     read_ok |-> read_ok, raised |-> checked.raised]
        /\ justChecked' = TRUE
        /\ cleared' = NoClear
        /\ saved' = NoSave
        /\ fill_ticker' = ticker
        /\ fill_df' = <<>>
        /\ requests' = 0
        /\ max_retries' = EffectiveRetries(arg)
        /\ retries_arg' = arg
        /\ fill_gaps' = checked.gaps
        /\ gap_index' = IF checked.gaps = <<>> THEN 0 ELSE 1
        /\ retry_count' = 0
        /\ filled_gaps' = <<>>
        /\ failed_gaps' = <<>>
        /\ blacklisted_gaps' = <<>>
        /\ total_rows_inserted' = 0
        /\ fill_pc' = IF checked.raised THEN "raised"
                      ELSE IF checked.gaps = <<>> THEN "done"
                      ELSE WhileOrAfter(EffectiveRetries(arg))
        /\ outcome' = IF ~checked.raised /\ checked.gaps = <<>>
                      THEN NoGapsOutcome(ticker)
                      ELSE NoOutcome
        /\ UNCHANGED <<now, stock, stock_history, blacklist, qvars, wvars, hvars>>

\* the gap the for loop is at
CurrentGap == fill_gaps[gap_index]

\* df[(df.index >= gap_start) & (df.index <= gap_end)]
WithinGap(df, gap) ==
    LET Inside(t) == t >= gap[1] /\ t <= gap[2]
    IN  SelectSeq(df, Inside)

\* fetch_ticker_hourly_data(ticker, max_retries=3) and
\* fetch_ticker_minute_data(..., max_retries=3): the downloads they try
fetch_max_retries == 3

\* strftime('%Y-%m-%d'): the day of an instant, as yf.download reads it
\* (midnight)
StrfDate(t) == t - (t % Day)

\* fetch_ticker_minute_data(ticker, start_date, end_date): the (start, end)
\* it passes to yf.download, one pair per pass of its while loop
RECURSIVE FetchTickerMinuteChunks(_, _)
FetchTickerMinuteChunks(current_start, end_date) ==
    IF ~(current_start < end_date) THEN <<>>
    ELSE LET current_end == Min(current_start + 6 * Day, end_date)
         IN  <<[start |-> StrfDate(current_start), end |-> StrfDate(current_end),
                current_start |-> current_start, current_end |-> current_end]>>
             \o FetchTickerMinuteChunks(current_end, end_date)

\* pd.concat(all_data): of the bars yfinance has, those of the requested
\* ranges, each from its start to before its end
InChunks(df, chunks) ==
    LET Requested(t) == \E i \in 1..Len(chunks) :
                           chunks[i].start <= t /\ t < chunks[i].end
    IN  SelectSeq(df, Requested)

\* the yf.download calls of a fetch_ticker_hourly_data call that got df, fails
\* of them having raised or come back empty before: it stops at the first
\* frame with rows
HourlyDownloads(df, fails) ==
    IF df = <<>> THEN fetch_max_retries ELSE fails + 1

\* the yf.download calls of a fetch_ticker_minute_data call: for every chunk
\* one that returns, after fails that raised
MinuteDownloads(chunks, fails) == Len(chunks) * (fails + 1)

\* the end of an iteration of the for loop: the next gap, or the return
NextGap(filled, failed, blacklisted, total) ==
    /\ retry_count' = 0
    /\ filled_gaps' = filled
    /\ failed_gaps' = failed
    /\ blacklisted_gaps' = blacklisted
    /\ total_rows_inserted' = total
    /\ IF gap_index < Len(fill_gaps)
       THEN /\ gap_index' = gap_index + 1
            /\ fill_pc' = WhileOrAfter(max_retries)
            /\ outcome' = outcome
       ELSE /\ gap_index' = gap_index
            /\ fill_pc' = "done"
            /\ outcome' = FilledOutcome(fill_ticker, fill_gaps, filled, failed,
                                        blacklisted, total)

\* one pass of the while loop: a download, and the save of what it yields;
\* error is an exception raised before the save, which leaves nothing to save
FillAttempt(df, error, fails) ==
    LET gap == CurrentGap
        is_hourly == gap[3]
        key == <<fill_ticker, is_hourly>>
        chunks == FetchTickerMinuteChunks(gap[1], gap[2])
        bars == IF error THEN <<>>
                ELSE IF is_hourly THEN WithinGap(df, gap)
                ELSE InChunks(df, chunks)
        saving == bars # <<>>
        duplicate == Range(bars) \cap Range(stock_history[key]) # {}
    IN  /\ fill_pc = "attempt"
        /\ retry_count < max_retries
        /\ fill_df' = bars
        /\ requests' = IF is_hourly THEN HourlyDownloads(df, fails)
                       ELSE MinuteDownloads(chunks, fails)
        /\ stock' = IF saving THEN EnsureStockExists(fill_ticker) ELSE stock
        /\ IF saving /\ ~duplicate
           THEN /\ stock_history' = [stock_history EXCEPT ![key] = OrderBy(@ \o bars)]
                /\ NextGap(Append(filled_gaps,
                                  [start |-> gap[1], end |-> gap[2],
                                   is_hourly |-> is_hourly,
                                   rows_inserted |-> Len(bars),
                                   retries |-> retry_count]),
                           failed_gaps, blacklisted_gaps,
                           total_rows_inserted + Len(bars))
           ELSE /\ retry_count' = retry_count + 1
                /\ fill_pc' = IF retry_count + 1 < max_retries
                              THEN "attempt" ELSE "exhausted"
                /\ UNCHANGED <<stock_history, gap_index, filled_gaps, failed_gaps,
                               blacklisted_gaps, total_rows_inserted, outcome>>
        /\ found' = NoResult
        /\ justChecked' = FALSE
        /\ cleared' = NoClear
        /\ saved' = IF saving THEN SaveCall(fill_ticker, bars, is_hourly)
                     ELSE NoSave
        /\ UNCHANGED <<now, blacklist, fill_ticker, max_retries, retries_arg,
                       fill_gaps, qvars, wvars, hvars>>

GiveUpGapAtGapEnd(insert_ok) ==
    LET gap == CurrentGap
        record == [start |-> gap[1], end |-> gap[2], is_hourly |-> gap[3]]
    IN  /\ fill_pc = "exhausted"
        /\ insert_ok => Len(blacklist) < MaxBlacklist
        /\ IF insert_ok
           THEN /\ blacklist' = Append(blacklist, [stock_symbol |-> fill_ticker,
                                                   timestamp |-> gap[2],
                                                   time_added |-> now,
                                                   is_hourly |-> TRUE])
                /\ NextGap(filled_gaps, failed_gaps,
                           Append(blacklisted_gaps, record), total_rows_inserted)
           ELSE /\ blacklist' = blacklist
                /\ NextGap(filled_gaps, Append(failed_gaps, record),
                           blacklisted_gaps, total_rows_inserted)
        /\ found' = NoResult
        /\ justChecked' = FALSE
        /\ cleared' = NoClear
        /\ saved' = NoSave
        /\ requests' = 0
        /\ UNCHANGED <<now, stock, stock_history, fill_ticker, fill_df,
                       max_retries, retries_arg, fill_gaps, qvars, wvars, hvars>>

GiveUpGapAbort(insert_ok) ==
    LET gap == CurrentGap
        record == [start |-> gap[1], end |-> gap[2], is_hourly |-> gap[3]]
    IN  /\ fill_pc = "exhausted"
        /\ insert_ok => Len(blacklist) < MaxBlacklist
        /\ IF insert_ok
           THEN /\ blacklist' = Append(blacklist, [stock_symbol |-> fill_ticker,
                                                   timestamp |-> gap[1],
                                                   time_added |-> now,
                                                   is_hourly |-> TRUE])
                /\ NextGap(filled_gaps, failed_gaps,
                           Append(blacklisted_gaps, record), total_rows_inserted)
           ELSE /\ blacklist' = blacklist
                /\ fill_pc' = "raised"
                /\ UNCHANGED <<gap_index, retry_count, filled_gaps, failed_gaps,
                               blacklisted_gaps, total_rows_inserted, outcome>>
        /\ found' = NoResult
        /\ justChecked' = FALSE
        /\ cleared' = NoClear
        /\ saved' = NoSave
        /\ requests' = 0
        /\ UNCHANGED <<now, stock, stock_history, fill_ticker, fill_df,
                       max_retries, retries_arg, fill_gaps, qvars, wvars, hvars>>

\* if not gap_filled: add_to_blacklist, which succeeds or raises
GiveUpGap(insert_ok) ==
    LET gap == CurrentGap
        record == [start |-> gap[1], end |-> gap[2], is_hourly |-> gap[3]]
    IN  /\ fill_pc = "exhausted"
        /\ insert_ok => Len(blacklist) < MaxBlacklist
        /\ IF insert_ok
           THEN /\ blacklist' = Append(blacklist, [stock_symbol |-> fill_ticker,
                                                   timestamp |-> gap[1],
                                                   time_added |-> now,
                                                   is_hourly |-> TRUE])
                /\ NextGap(filled_gaps, failed_gaps,
                           Append(blacklisted_gaps, record), total_rows_inserted)
           ELSE /\ blacklist' = blacklist
                /\ NextGap(filled_gaps, Append(failed_gaps, record),
                           blacklisted_gaps, total_rows_inserted)
        /\ found' = NoResult
        /\ justChecked' = FALSE
        /\ cleared' = NoClear
        /\ saved' = NoSave
        /\ requests' = 0
        /\ UNCHANGED <<now, stock, stock_history, fill_ticker, fill_df,
                       max_retries, retries_arg, fill_gaps, qvars, wvars, hvars>>

\* fetch_all_tickers_historical_data saving a frame, between two calls of
\* detect_and_fill_gaps
FetchHistoricalData(ticker, df, is_hourly) ==
    /\ fill_pc \in {"idle", "done", "raised"}
    /\ SaveStockDataToDb(ticker, df, is_hourly)

\* The worker: history frames of F saved for AAPL, and detect_and_fill_gaps
\* calls, with the clock read at the instants T.
FillNext(T, F) ==
    \/ \E ticker \in GapSymbols, arg \in RetryArgs, read_ok \in BOOLEAN :
          DetectAndFillGaps(ticker, arg, read_ok)
    \/ /\ fill_pc = "attempt"
       /\ \E df \in YfFill(fill_ticker, CurrentGap[3]) \cup {<<>>}, error \in BOOLEAN,
             fails \in 0..(fetch_max_retries - 1) :
                FillAttempt(df, error, fails)
    \/ \E insert_ok \in BOOLEAN : GiveUpGap(insert_ok)
    \/ \E is_hourly \in BOOLEAN :
          \E df \in F \cap YfDownload("AAPL", is_hourly) :
             FetchHistoricalData("AAPL", df, is_hourly)
    \/ Tick(T)

(***************************************************************************)
(* StockQueueService.get_status                                            *)
(***************************************************************************)
\* datetime.isoformat(): the text of an instant
IsoFormat(time) == [isoformat |-> time]

\* a status whose total counts the symbols of both categories
GetStatusResponseOfBoth(t) ==
    [kind |-> "status",
     total_stocks |-> counts[t].history_remaining + counts[t].history_total_processed
                      + counts[t].gap_remaining + counts[t].gap_total_processed,
     history_updates |-> [remaining |-> counts[t].history_remaining,
                          processed |-> counts[t].history_total_processed],
     gap_detection |-> [remaining |-> counts[t].gap_remaining,
                        processed |-> counts[t].gap_total_processed],
     last_refresh |-> IF last_refresh_time = NoTime THEN NoTime
                      ELSE <<IsoFormat(last_refresh_time[1])>>,
     next_refresh |-> IF last_refresh_time = NoTime THEN NoTime
                      ELSE <<IsoFormat(last_refresh_time[1] + refresh_interval_hours)>>]

\* the OrchestratorStatus the return statement of thread t's get_status builds
\* (times are counted in hours)
GetStatusResponse(t) ==
    [kind |-> "status",
     total_stocks |-> counts[t].history_remaining + counts[t].history_total_processed,
     history_updates |-> [remaining |-> counts[t].history_remaining,
                          processed |-> counts[t].history_total_processed],
     gap_detection |-> [remaining |-> counts[t].gap_remaining,
                        processed |-> counts[t].gap_total_processed],
     last_refresh |-> IF last_refresh_time = NoTime THEN NoTime
                      ELSE <<IsoFormat(last_refresh_time[1])>>,
     next_refresh |-> IF last_refresh_time = NoTime THEN NoTime
                      ELSE <<IsoFormat(last_refresh_time[1] + refresh_interval_hours)>>]

\* with self.history_lock:
GetStatusLockHistory(t) ==
    /\ pc[t] = "idle"
    /\ Acquirable(history_lock)
    /\ history_lock' = t
    /\ Goto(t, "st_h_locked")
    /\ UNCHANGED <<stocks_per_request, history_queue, history_processed,
                   gap_detection_queue, gap_detection_processed, gap_detection_lock,
                   last_refresh_time, tickers, batch_size, batch, counts, ghostState>>
    /\ UNCHANGED <<gvars, fvars, wvars, hvars>>

\* history_remaining = len(...); history_total_processed = len(...), leaving
\* the with block
GetStatusHistory(t) ==
    /\ pc[t] = "st_h_locked"
    /\ counts' = [counts EXCEPT ![t].history_remaining = Len(history_queue),
                                ![t].history_total_processed = Len(history_processed)]
    /\ history_lock' = Free
    /\ Goto(t, "st_h_done")
    /\ UNCHANGED <<stocks_per_request, history_queue, history_processed,
                   gap_detection_queue, gap_detection_processed, gap_detection_lock,
                   last_refresh_time, tickers, batch_size, batch, ghostState>>
    /\ UNCHANGED <<gvars, fvars, wvars, hvars>>

\* with self.gap_detection_lock:
GetStatusLockGapDetection(t) ==
    /\ pc[t] = "st_h_done"
    /\ Acquirable(gap_detection_lock)
    /\ gap_detection_lock' = t
    /\ Goto(t, "st_g_locked")
    /\ UNCHANGED <<stocks_per_request, history_queue, history_processed, history_lock,
                   gap_detection_queue, gap_detection_processed,
                   last_refresh_time, tickers, batch_size, batch, counts, ghostState>>
    /\ UNCHANGED <<gvars, fvars, wvars, hvars>>

\* gap_remaining = len(...); gap_total_processed = len(...), leaving the with
\* block
GetStatusGapDetection(t) ==
    /\ pc[t] = "st_g_locked"
    /\ counts' = [counts EXCEPT ![t].gap_remaining = Len(gap_detection_queue),
                                ![t].gap_total_processed = Len(gap_detection_processed)]
    /\ gap_detection_lock' = Free
    /\ Goto(t, "st_g_done")
    /\ UNCHANGED <<stocks_per_request, history_queue, history_processed, history_lock,
                   gap_detection_queue, gap_detection_processed,
                   last_refresh_time, tickers, batch_size, batch, ghostState>>
    /\ UNCHANGED <<gvars, fvars, wvars, hvars>>

\* return OrchestratorStatus(...)
GetStatusReturn(t) ==
    /\ pc[t] = "st_g_done"
    /\ counts' = [counts EXCEPT ![t] = NoCounts]
    /\ Goto(t, "idle")
    /\ UNCHANGED <<stocks_per_request, queueState, tickers, batch_size, batch,
                   ghostState>>
    /\ UNCHANGED <<gvars, fvars, wvars, hvars>>

(***************************************************************************)
(* worker_scheduler.hourly_fetch_task against the orchestrator's           *)
(* endpoints.  An endpoint holds the lock of its category for its whole    *)
(* body, so a request is one step, taken when nobody holds the lock.  The  *)
(* quote source has no bars for the symbols the orchestrator hands out and *)
(* the stock table does not hold them: processing a batch writes nothing.  *)
(***************************************************************************)
\* POST /get-batch: the batch is the front of the pending list
GetStockBatch ==
    LET batch_taken == Take(history_queue, stocks_per_request)
    IN  /\ Acquirable(history_lock)
        /\ history_tickers' = batch_taken
        /\ history_queue' = Drop(history_queue, stocks_per_request)
        /\ history_processed' = history_processed \o batch_taken

\* POST /get-gap-detection-batch
GetGapDetectionBatch ==
    LET batch_taken == Take(gap_detection_queue, stocks_per_request)
    IN  /\ Acquirable(gap_detection_lock)
        /\ gap_tickers' = batch_taken
        /\ gap_detection_queue' = Drop(gap_detection_queue, stocks_per_request)
        /\ gap_detection_processed' = gap_detection_processed \o batch_taken

\* where the cycle goes after the history request
AfterHistoryRequest(received) ==
    IF received # <<>> THEN "history" ELSE "gap_request"

\* history_tickers = await fetch_batch_from_orchestrator(): the response's
\* tickers, or [] when the request raised
FetchBatchFromOrchestrator(ok) ==
    /\ worker_pc = "cycle"
    /\ pending_at_request' = history_queue
    /\ IF ok
       THEN GetStockBatch
       ELSE /\ history_tickers' = <<>>
            /\ UNCHANGED <<history_queue, history_processed>>
    /\ worker_pc' = AfterHistoryRequest(history_tickers')
    /\ UNCHANGED <<stocks_per_request, history_lock, gap_detection_queue,
                   gap_detection_processed, gap_detection_lock,
                   last_refresh_time, threadState, ghostState, gap_tickers,
                   gap_passed>>
    /\ UNCHANGED <<gvars, fvars, hvars>>

\* await process_stock_batch(history_tickers)
ProcessStockBatch ==
    /\ worker_pc = "history"
    /\ worker_pc' = "sleep"
    /\ UNCHANGED <<history_tickers, gap_tickers, pending_at_request, gap_passed>>
    /\ UNCHANGED <<qvars, gvars, fvars, hvars>>

\* gap_tickers = await fetch_gap_detection_batch()
FetchGapDetectionBatch(ok) ==
    /\ worker_pc = "gap_request"
    /\ IF ok
       THEN GetGapDetectionBatch
       ELSE /\ gap_tickers' = <<>>
            /\ UNCHANGED <<gap_detection_queue, gap_detection_processed>>
    /\ worker_pc' = IF gap_tickers' # <<>> THEN "gap" ELSE "sleep"
    /\ UNCHANGED <<stocks_per_request, history_queue, history_processed,
                   history_lock, gap_detection_lock, last_refresh_time,
                   threadState, ghostState, history_tickers, pending_at_request,
                   gap_passed>>
    /\ UNCHANGED <<gvars, fvars, hvars>>

\* for ticker in tickers: result = data_fetcher.detect_and_fill_gaps(ticker),
\* inside one try: the tickers the loop gets to when the call for the
\* raised_at-th raises (0: none does)
TickersPassed(batch_of, raised_at) ==
    IF raised_at = 0 THEN batch_of ELSE Take(batch_of, raised_at)

\* await process_gap_detection_batch(gap_tickers)
ProcessGapDetectionBatch(raised_at) ==
    /\ worker_pc = "gap"
    /\ worker_pc' = "sleep"
    /\ gap_passed' = TickersPassed(gap_tickers, raised_at)
    /\ UNCHANGED <<history_tickers, gap_tickers, pending_at_request>>
    /\ UNCHANGED <<qvars, gvars, fvars, hvars>>

\* await asyncio.sleep(FETCH_INTERVAL_SECONDS), and the next pass of the loop
WorkerSleep ==
    /\ worker_pc = "sleep"
    /\ worker_pc' = "cycle"
    /\ history_tickers' = <<>>
    /\ gap_tickers' = <<>>
    /\ pending_at_request' = <<>>
    /\ gap_passed' = <<>>
    /\ UNCHANGED <<qvars, gvars, fvars, hvars>>

\* The worker, and the threads A that refresh the queues with the lists L.
WorkerNext(A, L) ==
    \/ \E ok \in BOOLEAN : FetchBatchFromOrchestrator(ok)
    \/ ProcessStockBatch
    \/ \E ok \in BOOLEAN : FetchGapDetectionBatch(ok)
    \/ \E raised_at \in 0..Len(gap_tickers) : ProcessGapDetectionBatch(raised_at)
    \/ WorkerSleep
    \/ \E t \in A : \/ \E tk \in L : RefreshLockHistory(t, tk)
                    \/ RefreshHistoryQueue(t)
                    \/ RefreshHistoryProcessed(t)
                    \/ RefreshLockGapDetection(t)
                    \/ RefreshGapDetectionQueue(t)
                    \/ RefreshGapDetectionProcessed(t)
                    \/ RefreshTime(t)

(***************************************************************************)
(* fetch_all_tickers_historical_data, one step per ticker of its loop, and *)
(* POST /fetch-stock-data with the rate limit flag it keeps.               *)
(***************************************************************************)
\* the most tickers POST /fetch-stock-data accepts
MaxTickersAllowed == 250

\* no summary: no call has returned
NoSummary == <<>>

\* results = {}
NoResults == [t \in {} |-> [success |-> FALSE, rows_inserted |-> 0, error |-> ""]]

\* if rate_limited: (the flag, as the function and the endpoint read it)
IsRateLimitedNever == FALSE

IsRateLimited == rate_limited

\* the summary of the early return
RateLimitedSummary(tks) ==
    [total_tickers |-> Len(tks), successful |-> 0, failed |-> Len(tks),
     failed_tickers |-> tks, total_rows_inserted |-> 0,
     error |-> <<"Service is rate limited">>]

\* the summary of the return after the loop
Summary(tks, failed, rows) ==
    [total_tickers |-> Len(tks), successful |-> Len(tks) - Len(failed),
     failed |-> Len(failed), failed_tickers |-> failed,
     total_rows_inserted |-> rows, error |-> <<>>]

\* where a call is after its return: the endpoint has the summary to look at
AfterReturn(caller) == IF caller = "endpoint" THEN "respond" ELSE "idle"

\* results[ticker] = entry
SetResult(res, ticker, entry) ==
    [t \in DOMAIN res \cup {ticker} |-> IF t = ticker THEN entry ELSE res[t]]

\* fetch_all_tickers_historical_data(tks, end_date) up to its loop
EnterFetchAll(tks, caller) ==
    /\ fetch_tickers' = tks
    /\ fetch_caller' = caller
    /\ results' = NoResults
    /\ failed_tickers' = <<>>
    /\ rows_inserted' = 0
    /\ attempted' = <<>>
    /\ requested' = FALSE
    /\ IF IsRateLimited
       THEN /\ summary' = <<RateLimitedSummary(tks)>>
            /\ fetch_index' = 0
            /\ fetch_pc' = AfterReturn(caller)
       ELSE IF tks = <<>>
       THEN /\ summary' = <<Summary(tks, <<>>, 0)>>
            /\ fetch_index' = 0
            /\ fetch_pc' = AfterReturn(caller)
       ELSE /\ summary' = NoSummary
            /\ fetch_index' = 1
            /\ fetch_pc' = "loop"
    /\ cleared' = NoClear
    /\ saved' = NoSave
    /\ justChecked' = FALSE
    /\ UNCHANGED <<now, stock, stock_history, blacklist, found>>

\* a caller other than the endpoint (process_stock_batch, a test) calls
\* fetch_all_tickers_historical_data
FetchAllTickersHistoricalData(tks) ==
    /\ fetch_pc = "idle"
    /\ EnterFetchAll(tks, "direct")
    /\ UNCHANGED <<rate_limited, response>>
    /\ UNCHANGED <<qvars, fvars, wvars>>

\* POST /fetch-stock-data up to the call of fetch_all_tickers_historical_data
FetchStockData(tks) ==
    /\ fetch_pc = "idle"
    /\ IF IsRateLimited
       THEN /\ response' = "429"
            /\ requested' = FALSE
            /\ UNCHANGED <<fetch_pc, fetch_caller, fetch_tickers, fetch_index,
                           results, failed_tickers, rows_inserted, summary,
                           attempted, gvars>>
       ELSE IF tks = <<>> \/ Len(tks) > MaxTickersAllowed
       THEN /\ response' = "400"
            /\ requested' = FALSE
            /\ UNCHANGED <<fetch_pc, fetch_caller, fetch_tickers, fetch_index,
                           results, failed_tickers, rows_inserted, summary,
                           attempted, gvars>>
       ELSE /\ response' = "pending"
            /\ EnterFetchAll(tks, "endpoint")
    /\ UNCHANGED rate_limited
    /\ UNCHANGED <<qvars, fvars, wvars>>

\* One pass of the for loop: the ticker's hourly frame is fetched and saved,
\* then its minute frame; error is an exception raised in the try block
\* before anything is saved. The pass of the last ticker is followed by the
\* return.
FetchTicker(hourly_df, minute_df, error) ==
    /\ fetch_pc = "loop"
    /\ error => (hourly_df = <<>> /\ minute_df = <<>>)
    /\ LET ticker == fetch_tickers[fetch_index]
           hourly_call == SaveCall(ticker, hourly_df, TRUE)
           minute_call == SaveCall(ticker, minute_df, FALSE)
           hourly_raised == hourly_df # <<>> /\ hourly_call.raised
           hourly_stored == hourly_df # <<>> /\ ~hourly_call.raised
           minute_saved == ~hourly_raised /\ minute_df # <<>>
           minute_raised == minute_saved /\ minute_call.raised
           minute_stored == minute_saved /\ ~minute_call.raised
           raised == error \/ hourly_raised \/ minute_raised
           ticker_rows == (IF hourly_stored THEN Len(hourly_df) ELSE 0)
                          + (IF minute_stored THEN Len(minute_df) ELSE 0)
           success == ~raised /\ ticker_rows > 0
           entry == [success |-> success,
                     rows_inserted |-> IF success THEN ticker_rows ELSE 0,
                     error |-> IF raised THEN "exception"
                               ELSE IF success THEN ""
                               ELSE "No data returned from yfinance"]
           failed == IF success THEN failed_tickers
                     ELSE Append(failed_tickers, ticker)
           rows == IF raised THEN rows_inserted ELSE rows_inserted + ticker_rows
       IN  /\ stock' = IF hourly_df # <<>> \/ minute_saved
                       THEN EnsureStockExists(ticker) ELSE stock
           /\ stock_history' =
                 [k \in DOMAIN stock_history |->
                     IF k = <<ticker, TRUE>> /\ hourly_stored
                     THEN OrderBy(stock_history[k] \o hourly_df)
                     ELSE IF k = <<ticker, FALSE>> /\ minute_stored
                     THEN OrderBy(stock_history[k] \o minute_df)
                     ELSE stock_history[k]]
           /\ cleared' = NoClear
           /\ saved' = IF minute_saved THEN minute_call
                       ELSE IF hourly_df # <<>> THEN hourly_call ELSE NoSave
           /\ results' = SetResult(results, ticker, entry)
           /\ failed_tickers' = failed
           /\ rows_inserted' = rows
           /\ attempted' = Append(attempted, ticker)
           /\ requested' = TRUE
           /\ IF fetch_index = Len(fetch_tickers)
              THEN /\ summary' = <<Summary(fetch_tickers, failed, rows)>>
                   /\ fetch_pc' = AfterReturn(fetch_caller)
                   /\ UNCHANGED fetch_index
              ELSE /\ fetch_index' = fetch_index + 1
                   /\ UNCHANGED <<summary, fetch_pc>>
    /\ found' = NoResult
    /\ justChecked' = FALSE
    /\ UNCHANGED <<now, blacklist, rate_limited, response, fetch_tickers,
                   fetch_caller>>
    /\ UNCHANGED <<qvars, fvars, wvars>>

\* POST /fetch-stock-data after the call: more than half as many failures
\* as successes set the flag
FetchStockDataReturn ==
    /\ fetch_pc = "respond"
    /\ rate_limited' = (rate_limited
                        \/ 2 * summary[1].failed > summary[1].successful)
    /\ response' = "200"
    /\ fetch_pc' = "idle"
    /\ requested' = FALSE
    /\ UNCHANGED <<fetch_caller, fetch_tickers, fetch_index, results,
                   failed_tickers, rows_inserted, summary, attempted>>
    /\ UNCHANGED <<gvars, qvars, fvars, wvars>>

\* a reset task that is lost: the flag stays as it is
ResetRateLimitAfterDelayLost ==
    /\ rate_limited
    /\ fetch_pc = "idle"
    /\ rate_limited' = rate_limited
    /\ requested' = FALSE
    /\ UNCHANGED <<fetch_pc, fetch_caller, fetch_tickers, fetch_index, results,
                   failed_tickers, rows_inserted, summary, attempted, response>>
    /\ UNCHANGED <<gvars, qvars, fvars, wvars>>

\* reset_rate_limit_after_delay, an hour after the flag was set; the event
\* loop runs it between requests
ResetRateLimitAfterDelay ==
    /\ rate_limited
    /\ fetch_pc = "idle"
    /\ rate_limited' = FALSE
    /\ requested' = FALSE
    /\ UNCHANGED <<fetch_pc, fetch_caller, fetch_tickers, fetch_index, results,
                   failed_tickers, rows_inserted, summary, attempted, response>>
    /\ UNCHANGED <<gvars, qvars, fvars, wvars>>

\* The fetch service called with the ticker lists L, yfinance having the
\* frames F.
HistoryNext(L, F) ==
    \/ \E tks \in L : FetchAllTickersHistoricalData(tks)
    \/ \E tks \in L : FetchStockData(tks)
    \/ /\ fetch_pc = "loop"
       /\ \E error \in BOOLEAN :
          \E hourly_df \in {<<>>} \cup (F \cap YfDownload(fetch_tickers[fetch_index], TRUE)),
             minute_df \in {<<>>} \cup (F \cap YfDownload(fetch_tickers[fetch_index], FALSE)) :
                FetchTicker(hourly_df, minute_df, error)
    \/ FetchStockDataReturn
    \/ ResetRateLimitAfterDelay

(***************************************************************************)
(* orchestrator.py.  Its endpoints are coroutines without an await: the    *)
(* event loop runs one of them at a time, from its first statement to its  *)
(* return.  The bodies of /get-batch, /get-gap-detection-batch, /reset and *)
(* /status are, statement for statement, those of the StockQueueService    *)
(* methods, applied to the module's globals; /refresh and the startup hook *)
(* call refresh_stock_queue on the event loop, the scheduler calls it in   *)
(* an executor thread.                                                     *)
(***************************************************************************)
\* REFRESH_INTERVAL_HOURS
REFRESH_INTERVAL_HOURS == 24

\* The endpoints as functions of the module's globals (and of the limit, the
\* module's STOCKS_PER_REQUEST): the lists they leave and what they answer.
\* an endpoint that forgets to record the batch as dispatched
GetStockBatchEndpointForgets(queue, processed, limit) ==
    IF queue = <<>>
    THEN [queue |-> queue, processed |-> processed,
          response |-> StockBatchResponse(<<>>, 0, 0, Len(processed))]
    ELSE LET size == Min(limit, Len(queue))
             taken == SubSeq(queue, 1, size)
             left == SubSeq(queue, size + 1, Len(queue))
         IN  [queue |-> left, processed |-> processed,
              response |-> StockBatchResponse(taken, Len(taken), Len(left),
                                              Len(processed))]

\* POST /get-batch: get_stock_batch
GetStockBatchEndpoint(queue, processed, limit) ==
    IF queue = <<>>
    THEN [queue |-> queue, processed |-> processed,
          response |-> StockBatchResponse(<<>>, 0, 0, Len(processed))]
    ELSE LET size == Min(limit, Len(queue))
             taken == SubSeq(queue, 1, size)
             left == SubSeq(queue, size + 1, Len(queue))
         IN  [queue |-> left, processed |-> processed \o taken,
              response |-> StockBatchResponse(taken, Len(taken), Len(left),
                                              Len(processed \o taken))]

\* POST /get-gap-detection-batch: get_gap_detection_batch
GetGapDetectionBatchEndpoint(queue, processed, limit) ==
    IF queue = <<>>
    THEN [queue |-> queue, processed |-> processed,
          response |-> StockBatchResponse(<<>>, 0, 0, Len(processed))]
    ELSE LET size == Min(limit, Len(queue))
             taken == SubSeq(queue, 1, size)
             left == SubSeq(queue, size + 1, Len(queue))
         IN  [queue |-> left, processed |-> processed \o taken,
              response |-> StockBatchResponse(taken, Len(taken), Len(left),
                                              Len(processed \o taken))]

\* POST /reset, one category: queue.extend(processed); processed.clear()
ResetQueueEndpoint(queue, processed) ==
    [queue |-> queue \o processed, processed |-> <<>>]

\* POST /reset: what it answers, given the lists it left
ResetQueueResponse(h_queue, g_queue) ==
    [kind |-> "reset", success |-> TRUE,
     history_queue |-> Len(h_queue), gap_detection_queue |-> Len(g_queue)]

\* refresh_stock_queue, one category, given the list fetched
RefreshStockQueueEndpoint(fetched) ==
    [queue |-> fetched, processed |-> <<>>]

\* GET /status
GetStatusEndpoint(h_queue, h_processed, g_queue, g_processed, refresh_time) ==
    [kind |-> "status",
     total_stocks |-> Len(h_queue) + Len(h_processed),
     history_updates |-> [remaining |-> Len(h_queue), processed |-> Len(h_processed)],
     gap_detection |-> [remaining |-> Len(g_queue), processed |-> Len(g_processed)],
     last_refresh |-> IF refresh_time = NoTime THEN NoTime
                      ELSE <<IsoFormat(refresh_time[1])>>,
     next_refresh |-> IF refresh_time = NoTime THEN NoTime
                      ELSE <<IsoFormat(refresh_time[1] + REFRESH_INTERVAL_HOURS)>>]

\* refresh_stock_queue(): entering the try block
RefreshStockQueueCall(t) ==
    /\ pc[t] = "idle"
    /\ Goto(t, "rq_fetch")
    /\ UNCHANGED <<stocks_per_request, queueState, tickers, batch_size, batch,
                   counts, ghostState>>
    /\ UNCHANGED <<gvars, fvars, wvars, hvars>>

\* a fetch that empties the history queue before it raises
FetchStockListFromPolygonClearing(t, tk, ok) ==
    /\ pc[t] = "rq_fetch"
    /\ IF ok
       THEN /\ tickers' = [tickers EXCEPT ![t] = tk]
            /\ Goto(t, "rq_fetched")
            /\ UNCHANGED history_queue
       ELSE /\ Goto(t, "rq_raised")
            /\ history_queue' = <<>>
            /\ UNCHANGED tickers
    /\ UNCHANGED <<stocks_per_request, history_processed, history_lock,
                   gap_detection_queue, gap_detection_processed, gap_detection_lock,
                   last_refresh_time, batch_size, batch, counts, ghostState>>
    /\ UNCHANGED <<gvars, fvars, wvars, hvars>>

\* tickers = fetch_stock_list_from_polygon(): the list of the reply, or the
\* exception of a failed request (or of a client that was never initialised)
FetchStockListFromPolygon(t, tk, ok) ==
    /\ pc[t] = "rq_fetch"
    /\ IF ok
       THEN /\ tickers' = [tickers EXCEPT ![t] = tk]
            /\ Goto(t, "rq_fetched")
       ELSE /\ Goto(t, "rq_raised")
            /\ UNCHANGED tickers
    /\ UNCHANGED <<stocks_per_request, queueState, batch_size, batch,
                   counts, ghostState>>
    /\ UNCHANGED <<gvars, fvars, wvars, hvars>>

\* with history_lock:
RefreshStockQueueLockHistory(t) ==
    /\ pc[t] = "rq_fetched"
    /\ Acquirable(history_lock)
    /\ history_lock' = t
    /\ Goto(t, "rf_h_locked")
    /\ UNCHANGED <<stocks_per_request, history_queue, history_processed,
                   gap_detection_queue, gap_detection_processed, gap_detection_lock,
                   last_refresh_time, tickers, batch_size, batch, ghostState>>
    /\ UNCHANGED <<gvars, fvars, wvars, hvars, counts>>

\* except Exception as e: logger.error(...); raise -- /refresh answers 500, the
\* scheduler logs the failed job
RefreshStockQueueRaise(t) ==
    /\ pc[t] = "rq_raised"
    /\ Goto(t, "idle")
    /\ UNCHANGED <<stocks_per_request, queueState, tickers, batch_size, batch,
                   counts, ghostState>>
    /\ UNCHANGED <<gvars, fvars, wvars, hvars>>

\* a get_batch call of thread t, from the statement after the lock on
GetBatchRun(t) ==
    \/ GetBatchEmpty(t)
    \/ GetBatchSize(t)
    \/ GetBatchSlice(t)
    \/ GetBatchDelete(t)
    \/ GetBatchExtend(t)
    \/ GetBatchReturn(t)

\* a get_gap_detection_batch call of thread t, from the statement after the
\* lock on
GetGapDetectionBatchRun(t) ==
    \/ GetGapDetectionBatchEmpty(t)
    \/ GetGapDetectionBatchSize(t)
    \/ GetGapDetectionBatchSlice(t)
    \/ GetGapDetectionBatchDelete(t)
    \/ GetGapDetectionBatchExtend(t)
    \/ GetGapDetectionBatchReturn(t)

\* a refresh_queues call of thread t, from the statement after the first
\* lock on
RefreshRun(t) ==
    \/ RefreshHistoryQueue(t)
    \/ RefreshHistoryProcessed(t)
    \/ RefreshLockGapDetection(t)
    \/ RefreshGapDetectionQueue(t)
    \/ RefreshGapDetectionProcessed(t)
    \/ RefreshTime(t)

\* a reset_queue call of thread t, from the statement after the first lock on
ResetRun(t) ==
    \/ ResetHistoryExtend(t)
    \/ ResetHistoryClear(t)
    \/ ResetLockGapDetection(t)
    \/ ResetGapDetectionExtend(t)
    \/ ResetGapDetectionClear(t)
    \/ ResetReturn(t)

\* a get_status call of thread t, from the statement after the first lock on
GetStatusRun(t) ==
    \/ GetStatusHistory(t)
    \/ GetStatusLockGapDetection(t)
    \/ GetStatusGapDetection(t)
    \/ GetStatusReturn(t)

\* The orchestrator: the event loop E serving requests, the threads R (the
\* event loop and the scheduler's executor thread) calling
\* refresh_stock_queue, Polygon answering with the lists of L or failing.
OrchestratorNext(E, R, L) ==
    \/ \E t \in R : RefreshStockQueueCall(t)
    \/ \E t \in R, tk \in L, ok \in BOOLEAN : FetchStockListFromPolygon(t, tk, ok)
    \/ \E t \in R : RefreshStockQueueLockHistory(t)
    \/ \E t \in R : RefreshRun(t)
    \/ \E t \in R : RefreshStockQueueRaise(t)
    \/ \E t \in E : GetBatchLock(t)
    \/ \E t \in E : GetBatchRun(t)
    \/ \E t \in E : GetGapDetectionBatchLock(t)
    \/ \E t \in E : GetGapDetectionBatchRun(t)
    \/ \E t \in E : ResetLockHistory(t)
    \/ \E t \in E : ResetRun(t)
    \/ \E t \in E : GetStatusLockHistory(t)
    \/ \E t \in E : GetStatusRun(t)

(***************************************************************************)
(* The queue service driven by batch callers W and by callers A of refresh *)
(* and reset, refresh being handed the lists of L.                         *)
(***************************************************************************)
QueueNext(W, A, L) ==
    \/ \E t \in W : \/ GetBatchLock(t)
                    \/ GetBatchEmpty(t)
                    \/ GetBatchSize(t)
                    \/ GetBatchSlice(t)
                    \/ GetBatchDelete(t)
                    \/ GetBatchExtend(t)
                    \/ GetBatchReturn(t)
    \/ \E t \in W : \/ GetGapDetectionBatchLock(t)
                    \/ GetGapDetectionBatchEmpty(t)
                    \/ GetGapDetectionBatchSize(t)
                    \/ GetGapDetectionBatchSlice(t)
                    \/ GetGapDetectionBatchDelete(t)
                    \/ GetGapDetectionBatchExtend(t)
                    \/ GetGapDetectionBatchReturn(t)
    \/ \E t \in A : \/ \E tk \in L : RefreshLockHistory(t, tk)
                    \/ RefreshHistoryQueue(t)
                    \/ RefreshHistoryProcessed(t)
                    \/ RefreshLockGapDetection(t)
                    \/ RefreshGapDetectionQueue(t)
                    \/ RefreshGapDetectionProcessed(t)
                    \/ RefreshTime(t)
    \/ \E t \in A : \/ ResetLockHistory(t)
                    \/ ResetHistoryExtend(t)
                    \/ ResetHistoryClear(t)
                    \/ ResetLockGapDetection(t)
                    \/ ResetGapDetectionExtend(t)
                    \/ ResetGapDetectionClear(t)
                    \/ ResetReturn(t)

\* both services freshly started
Init == QInit /\ GapInit

\* The queue service with callers W of get_status as well.
StatusNext(W, A, L) ==
    \/ QueueNext(W, A, L)
    \/ \E t \in W : \/ GetStatusLockHistory(t)
                    \/ GetStatusHistory(t)
                    \/ GetStatusLockGapDetection(t)
                    \/ GetStatusGapDetection(t)
                    \/ GetStatusReturn(t)

\* the lists refresh is handed before a status is asked for
StatusLists == {<<>>, <<"A", "B">>, <<"B", "A", "A">>}

\* one caller at a time: refresh, get_batch, reset and get_status calls
SpecStatus ==
    Init /\ [][StatusNext(Solo, Solo, StatusLists)]_vars

\* one caller at a time: any sequence of refresh, get_batch and reset calls
SpecQueue ==
    Init /\ [][QueueNext(Solo, Solo, TickerLists)]_vars

\* two workers and a refreshing thread, interleaved statement by statement
SpecConc ==
    Init /\ [][QueueNext(Workers, Admins, ConcLists)]_vars

\* a worker asking for batches and statuses next to a thread that refreshes
\* and resets, interleaved statement by statement
StatusCallers == {"w1"}
SpecSnapshot ==
    Init /\ [][StatusNext(StatusCallers, Admins, StatusLists)]_vars

(***************************************************************************)
(* One refresh cycle: the first refresh_queues call of a fresh service and *)
(* workers W calling get_batch and get_gap_detection_batch, with no other  *)
(* refresh and no reset.                                                   *)
(***************************************************************************)
CycleNext(W, A, L) ==
    \/ \E t \in A, tk \in L : last_refresh_time = NoTime /\ RefreshLockHistory(t, tk)
    \/ \E t \in A : RefreshRun(t)
    \/ \E t \in W : GetBatchLock(t)
    \/ \E t \in W : GetBatchRun(t)
    \/ \E t \in W : GetGapDetectionBatchLock(t)
    \/ \E t \in W : GetGapDetectionBatchRun(t)

\* Every thread inside a call runs on (weak fairness of the statements of a
\* call) and the workers keep calling both batch methods (strong fairness of
\* the calls: a worker that is about to call is not passed over forever).
SpecCycle ==
    /\ Init
    /\ [][CycleNext(Workers, Admins, ConcLists)]_vars
    /\ \A t \in Admins : WF_vars(RefreshRun(t))
    /\ \A t \in Workers : WF_vars(GetBatchRun(t)) /\ WF_vars(GetGapDetectionBatchRun(t))
    /\ SF_vars(\E t \in Workers : GetBatchLock(t))
    /\ SF_vars(\E t \in Workers : GetGapDetectionBatchLock(t))

\* the orchestrator: requests on the event loop next to refreshes on the event
\* loop (/refresh, startup) and in the scheduler's thread
OrchestratorLists == {<<>>, <<"A", "B">>}
SpecOrchestrator ==
    Init /\ [][OrchestratorNext(Loop, Loop \cup Jobs, OrchestratorLists)]_vars

\* the data fetching service next to an idle queue service
InitGap == QStart({1}) /\ GapInit

\* the instants around the expiry of a blacklist entry added at StartTime or
\* a tick later
ExpiryInstants == {StartTime, StartTime + 1,
                   StartTime + 24 * Hour, StartTime + 24 * Hour + 1}

\* the worker's two jobs: the symbol gets its history, complete or with a
\* hole, and its gaps are detected and filled
FillInstants == {StartTime, LateTime}
FillFrames == {HourlyFull, HourlyHole, MinuteFull}

SpecFill ==
    InitGap /\ [][FillNext(FillInstants, FillFrames)]_vars

\* The polling worker on a store nothing else writes to: the history is
\* saved before the first detect_and_fill_gaps call, and from then on the
\* stored bars change only by the gaps the calls fill.
RecheckNext(T, F) ==
    \/ \E ticker \in GapSymbols, arg \in RetryArgs, read_ok \in BOOLEAN :
          DetectAndFillGaps(ticker, arg, read_ok)
    \/ /\ fill_pc = "attempt"
       /\ \E df \in YfFill(fill_ticker, CurrentGap[3]) \cup {<<>>}, error \in BOOLEAN,
             fails \in 0..(fetch_max_retries - 1) :
                FillAttempt(df, error, fails)
    \/ \E insert_ok \in BOOLEAN : GiveUpGap(insert_ok)
    \/ /\ fill_pc = "idle"
       /\ \E is_hourly \in BOOLEAN :
             \E df \in F \cap YfDownload("AAPL", is_hourly) :
                FetchHistoricalData("AAPL", df, is_hourly)
    \/ Tick(T)

SpecRecheck ==
    InitGap /\ [][RecheckNext(FillInstants, FillFrames)]_vars

\* a worker and the refreshes of the orchestrator
\* the ticker lists the fetch service is called with, and the frames
\* yfinance has
FetchLists == ListsUpTo(GapSymbols, MaxLen)
HistoryFrames == {HourlyOne, MinuteOne}

SpecHistory == InitGap /\ [][HistoryNext(FetchLists, HistoryFrames)]_vars

\* the same with the reset task scheduled: asyncio runs it once its hour of
\* sleep is over, the event loop being free whenever the flag is set
SpecCooldown ==
    /\ InitGap
    /\ [][HistoryNext(FetchLists, HistoryFrames)]_vars
    /\ WF_vars(ResetRateLimitAfterDelay)

WorkerLists == {<<>>, <<"A">>, <<"A", "B">>}

SpecWorker ==
    Init /\ [][WorkerNext(Admins, WorkerLists)]_vars

\* the data fetching service over a day, with the history that has a hole
ExpiryFrames == {HourlyHole, MinuteFull, MinuteOne}

SpecExpiry ==
    InitGap /\ [][GapNext(ExpiryInstants, {"AAPL"}, ExpiryFrames)]_vars

\* the data fetching service with clear_blacklist, over a day
ClearFrames == {HourlyHole, MinuteOne}
SpecClear ==
    InitGap /\ [][ClearNext(ExpiryInstants, ClearFrames)]_vars

\* the data fetching service with every history yfinance returns
GapFrames == {HourlyFull, HourlyHole, HourlyEdge, HourlyOne,
              MinuteFull, MinuteOld, MinuteOne}

SpecGap ==
    InitGap /\ [][GapNext(Instants, {"AAPL"}, GapFrames)]_vars

(***************************************************************************)
(* Properties of the queue service.                                        *)
(***************************************************************************)
Categories == {"history", "gap_detection"}
Pending(c) == IF c = "history" THEN history_queue ELSE gap_detection_queue
Dispatched(c) == IF c = "history" THEN history_processed ELSE gap_detection_processed
LockOf(c) == IF c = "history" THEN history_lock ELSE gap_detection_lock
Elems(s) == {s[i] : i \in 1..Len(s)}
IsPrefix(a, b) == Len(a) <= Len(b) /\ a = SubSeq(b, 1, Len(a))

\* C1: in each category, whenever no call is inside the category's lock, the
\* lengths of pending and dispatched add up to the length of the list the most
\* recent refresh put in (the empty list before the first refresh).
C1_Conservation ==
    \A c \in Categories :
        LockOf(c) = Free => Len(Pending(c)) + Len(Dispatched(c)) = Len(refreshed[c])

\* a refresh of three tickers, a batch, a reset and another batch have happened
C1_Witness ==
    /\ history_lock = Free
    /\ Len(refreshed["history"]) = 3
    /\ resetSince["history"]
    /\ history_processed # <<>>
    /\ history_queue # <<>>

\* C2 (as claimed): whatever list refresh was handed, no symbol is both pending
\* and dispatched, and the symbols of the two together are those of the most
\* recent refresh argument.
C2_DisjointAndCovering ==
    \A c \in Categories :
        LockOf(c) = Free =>
            /\ Elems(Pending(c)) \cap Elems(Dispatched(c)) = {}
            /\ Elems(Pending(c)) \cup Elems(Dispatched(c)) = Elems(refreshed[c])

\* C3: when get_batch (either category) found pending non-empty and is about to
\* return, it has removed the first min(limit, len(pending)) symbols of the
\* pending list it found, in order, appended them in that order to the end of
\* dispatched, returns exactly them, and the rest of pending kept its order.
C3_BatchIsFront ==
    \A t \in Threads :
        /\ pc[t] = "gb_ext" =>
             LET k == Min(stocks_per_request, Len(snap[t].queue)) IN
             /\ snap[t].queue # <<>>
             /\ GetBatchResponse(t).tickers = SubSeq(snap[t].queue, 1, k)
             /\ GetBatchResponse(t).batch_size = k
             /\ history_queue = SubSeq(snap[t].queue, k + 1, Len(snap[t].queue))
             /\ history_processed = snap[t].processed \o SubSeq(snap[t].queue, 1, k)
        /\ pc[t] = "gd_ext" =>
             LET k == Min(stocks_per_request, Len(snap[t].queue)) IN
             /\ snap[t].queue # <<>>
             /\ GetGapDetectionBatchResponse(t).tickers = SubSeq(snap[t].queue, 1, k)
             /\ GetGapDetectionBatchResponse(t).batch_size = k
             /\ gap_detection_queue = SubSeq(snap[t].queue, k + 1, Len(snap[t].queue))
             /\ gap_detection_processed = snap[t].processed \o SubSeq(snap[t].queue, 1, k)

\* a second batch, cut while symbols are already dispatched and leaving some pending
C3_Witness ==
    \E t \in Threads :
        /\ pc[t] = "gb_ext"
        /\ snap[t].processed # <<>>
        /\ batch[t] # <<>>
        /\ history_queue # <<>>

\* C4: a get_batch call that finds pending empty takes the early return with an
\* empty batch, and neither its entry nor its return changes pending or
\* dispatched of either category.
C4_EmptyBatchNoChange ==
    [][\A t \in Threads :
          /\ (pc[t] = "gb_locked" /\ history_queue = <<>> /\ pc'[t] # pc[t]) =>
                /\ pc'[t] = "idle"
                /\ GetBatchResponse(t).tickers = <<>>
                /\ GetBatchResponse(t).batch_size = 0
                /\ UNCHANGED <<history_queue, history_processed,
                               gap_detection_queue, gap_detection_processed>>
          /\ (pc[t] = "gd_locked" /\ gap_detection_queue = <<>> /\ pc'[t] # pc[t]) =>
                /\ pc'[t] = "idle"
                /\ GetGapDetectionBatchResponse(t).tickers = <<>>
                /\ GetGapDetectionBatchResponse(t).batch_size = 0
                /\ UNCHANGED <<history_queue, history_processed,
                               gap_detection_queue, gap_detection_processed>>
          /\ (pc[t] = "idle" /\ pc'[t] \in {"gb_locked", "gd_locked"}) =>
                UNCHANGED <<history_queue, history_processed,
                            gap_detection_queue, gap_detection_processed>>
      ]_vars

\* get_batch is inside the lock with nothing pending and everything dispatched
C4_Witness ==
    \E t \in Threads :
        /\ pc[t] = "gb_locked"
        /\ history_queue = <<>>
        /\ history_processed # <<>>
        /\ gap_detection_queue # <<>>

\* C5 (as claimed): when reset has left a category's lock, pending is what was
\* dispatched before the reset followed by what was pending before it, and
\* dispatched is empty.
C5_ResetToFront ==
    \A t \in Threads :
        /\ pc[t] = "rs_h_done" =>
              /\ history_queue = snap[t].processed \o snap[t].queue
              /\ history_processed = <<>>
        /\ pc[t] = "rs_g_done" =>
              /\ gap_detection_queue = snap[t].processed \o snap[t].queue
              /\ gap_detection_processed = <<>>

\* the statements of get_batch and of refresh_queues inside a category's lock
InGetBatch(t, c) ==
    IF c = "history"
    THEN pc[t] \in {"gb_locked", "gb_size", "gb_slice", "gb_del", "gb_ext"}
    ELSE pc[t] \in {"gd_locked", "gd_size", "gd_slice", "gd_del", "gd_ext"}
InRefresh(t, c) ==
    IF c = "history"
    THEN pc[t] \in {"rf_h_locked", "rf_h_queue"}
    ELSE pc[t] \in {"rf_g_locked", "rf_g_queue"}
AtLabel(t, c, h, g) == pc[t] = (IF c = "history" THEN h ELSE g)

\* C6: refresh is atomic for a concurrent get_batch on the same category. No
\* get_batch is inside the lock while a refresh is; at every statement of a
\* get_batch the category is what the call found when it got the lock, changed
\* by its own statements only, so its batch is a prefix of one pending list
\* (the one before the refresh or the new one); and whenever the lock is free
\* after a refresh (and before a reset) dispatched followed by pending is
\* exactly the new ticker list.
C6_RefreshAtomic ==
    \A c \in Categories :
        /\ \A t \in Threads, u \in Threads : ~(InGetBatch(t, c) /\ InRefresh(u, c))
        /\ \A t \in Threads :
              LET q == snap[t].queue
                  k == Min(stocks_per_request, Len(q)) IN
              /\ (AtLabel(t, c, "gb_locked", "gd_locked") \/ AtLabel(t, c, "gb_size", "gd_size")) =>
                    Pending(c) = q /\ Dispatched(c) = snap[t].processed
              /\ AtLabel(t, c, "gb_slice", "gd_slice") =>
                    /\ Pending(c) = q /\ Dispatched(c) = snap[t].processed
                    /\ batch[t] = SubSeq(q, 1, k)
              /\ AtLabel(t, c, "gb_del", "gd_del") =>
                    /\ Pending(c) = SubSeq(q, k + 1, Len(q))
                    /\ Dispatched(c) = snap[t].processed
                    /\ batch[t] = SubSeq(q, 1, k)
              /\ AtLabel(t, c, "gb_ext", "gd_ext") =>
                    /\ Pending(c) = SubSeq(q, k + 1, Len(q))
                    /\ Dispatched(c) = snap[t].processed \o SubSeq(q, 1, k)
                    /\ batch[t] = SubSeq(q, 1, k)
        /\ (LockOf(c) = Free /\ ~resetSince[c]) =>
              Dispatched(c) \o Pending(c) = refreshed[c]

\* a worker cuts its batch from the new history list while the same refresh has
\* swapped in gap-detection's pending and not yet emptied its dispatched
C6_Witness ==
    /\ pc["adm"] = "rf_g_queue"
    /\ tickers["adm"] = <<"B", "A", "A">>
    /\ pc["w1"] = "gb_slice"
    /\ batch["w1"] # <<>>
    /\ refreshed["history"] = <<"B", "A", "A">>
    /\ gap_detection_processed # <<>>

\* C7: between a refresh and the next refresh or reset of a category, the
\* batches cut by the workers, concatenated in the order the calls held the
\* lock, are a prefix of the refreshed list, each batch being the segment that
\* follows the ones cut before it: no position is handed out twice.
C7_NoDuplicateDispatch ==
    \A c \in Categories :
        ~resetSince[c] =>
            /\ IsPrefix(handed[c], refreshed[c])
            /\ \A t \in Threads :
                  (\/ AtLabel(t, c, "gb_slice", "gd_slice")
                   \/ AtLabel(t, c, "gb_del", "gd_del")
                   \/ AtLabel(t, c, "gb_ext", "gd_ext")) =>
                      /\ Len(batch[t]) <= Len(handed[c])
                      /\ batch[t] = SubSeq(refreshed[c],
                                           Len(handed[c]) - Len(batch[t]) + 1,
                                           Len(handed[c]))

\* the whole refreshed list has been handed out in several batches, the last
\* of them to one worker while the other is busy in the other category
C7_Witness ==
    /\ ~resetSince["history"]
    /\ refreshed["history"] = <<"B", "A", "A">>
    /\ handed["history"] = <<"B", "A", "A">>
    /\ pc["w1"] = "gb_ext"
    /\ batch["w1"] = <<"A">>
    /\ pc["w2"] = "gd_slice"

(***************************************************************************)
(* Properties of the gap detector.  They are stated about the call that    *)
(* was just made: found is its result, and the clock and the tables are    *)
(* those it read.  The days of the windows and thresholds are written out  *)
(* as the specification gives them.                                        *)
(***************************************************************************)
\* the retention window, the gap threshold and the recency threshold of a band
WindowOf(is_hourly) == IF is_hourly THEN 730 * Day ELSE 30 * Day
ThresholdOf(is_hourly) == IF is_hourly THEN 7 * Day ELSE 1 * Day
RecencyOf(is_hourly) == IF is_hourly THEN 7 * Day ELSE 1 * Day

\* the stored timestamps of the checked symbol in a band
Stored(is_hourly) == stock_history[<<found.symbol, is_hourly>>]

\* the gaps of a list that carry the flag of a band, in order
BandGaps(gaps, is_hourly) ==
    LET OfBand(g) == g[3] = is_hourly
    IN  SelectSeq(gaps, OfBand)

\* the call was made for a symbol of the stock table
CheckedKnown == justChecked /\ found.symbol \in stock /\ ~found.raised

\* some blacklist row of the symbol, added at most 24 hours ago, has its
\* timestamp in the same second as start
Suppressed(symbol, start) ==
    \E i \in 1..Len(blacklist) :
        /\ blacklist[i].stock_symbol = symbol
        /\ blacklist[i].timestamp \div TicksPerSecond = start \div TicksPerSecond
        /\ now - blacklist[i].time_added <= 24 * Hour

\* C8 as amended: for a known symbol with no stored timestamp in a band,
\* check_for_gaps returns for that band exactly the one gap
\* (now - window, now) (window 730 days hourly, 30 days minute) and no other,
\* unless an unexpired blacklist entry of the symbol lies in the second of
\* now - window: then it returns no gap for that band.
C8_EmptyBandFullWindowUnlessBlacklisted ==
    CheckedKnown =>
        \A b \in BOOLEAN :
            Stored(b) = <<>> =>
                BandGaps(found.gaps, b) =
                    IF Suppressed(found.symbol, now - WindowOf(b))
                    THEN <<>>
                    ELSE << <<now - WindowOf(b), now, b>> >>

\* a check of AAPL, known, without hourly bars but with minute bars,
\* returned the two-year gap first
C8_Witness ==
    /\ CheckedKnown
    /\ found.symbol = "AAPL"
    /\ Stored(TRUE) = <<>>
    /\ Stored(FALSE) # <<>>
    /\ blacklist # <<>>
    /\ found.gaps # <<>>
    /\ found.gaps[1] = <<now - 730 * Day, now, TRUE>>

\* C8 as stated: for a known symbol with no stored timestamp in a band,
\* check_for_gaps returns exactly one gap for that band, (now - window, now).
C8_EmptyBandFullWindow ==
    CheckedKnown =>
        \A b \in BOOLEAN :
            Stored(b) = <<>> =>
                BandGaps(found.gaps, b) = << <<now - WindowOf(b), now, b>> >>

\* the timestamps reach back to now - window, forward to within the recency
\* threshold of now, and no two consecutive ones are further apart than the
\* gap threshold
Covered(t, is_hourly) ==
    /\ t # <<>>
    /\ t[1] <= now - WindowOf(is_hourly)
    /\ t[Len(t)] >= now - RecencyOf(is_hourly)
    /\ \A i \in 1..(Len(t) - 1) : t[i + 1] - t[i] <= ThresholdOf(is_hourly)

\* C9: for a known symbol whose stored timestamps of a band reach back to
\* now - window, forward to within the recency threshold of now, and have no
\* consecutive interval above the gap threshold, check_for_gaps returns no gap
\* for that band.
C9_CoveredBandNoGap ==
    CheckedKnown =>
        \A b \in BOOLEAN :
            Covered(Stored(b), b) => BandGaps(found.gaps, b) = <<>>

\* a check at StartTime of AAPL holding HourlyFull (oldest bar older than two
\* years, newest exactly 7 days old, every interval exactly 7 days) returned
\* gaps, all of them of the minute band
C9_Witness ==
    /\ CheckedKnown
    /\ found.symbol = "AAPL"
    /\ now = StartTime
    /\ Stored(TRUE) = HourlyFull
    /\ Covered(Stored(TRUE), TRUE)
    /\ found.gaps # <<>>
    /\ BandGaps(found.gaps, FALSE) = found.gaps

\* C10: in the list check_for_gaps builds before the blacklist filter, the
\* gap (t[i], t[i+1]) of a band is present if and only if t[i+1] - t[i] is
\* strictly greater than the band's threshold (7 days hourly, 1 day minute),
\* t being the stored timestamps of that band alone; and every gap of the
\* band in that list is such a pair or a gap from now - window or up to now.
C10_InteriorGapRule ==
    CheckedKnown =>
        \A b \in BOOLEAN :
            LET t == Stored(b)
                Pair(i) == <<t[i], t[i + 1], b>>
            IN  /\ \A i \in 1..(Len(t) - 1) :
                      Pair(i) \in Range(found.detected)
                          <=> t[i + 1] - t[i] > ThresholdOf(b)
                /\ \A g \in Range(BandGaps(found.detected, b)) :
                      \/ \E i \in 1..(Len(t) - 1) : g = Pair(i)
                      \/ g[1] = now - WindowOf(b)
                      \/ g[2] = now

\* a check of AAPL holding HourlyEdge and MinuteOld found the interval of
\* 7 days and a tick and the interval of 1 day and a tick, and not the
\* interval of exactly 7 days
C10_Witness ==
    /\ CheckedKnown
    /\ found.symbol = "AAPL"
    /\ Stored(TRUE) = HourlyEdge
    /\ Stored(FALSE) = MinuteOld
    /\ HourlyEdge[53] - HourlyEdge[52] = 7 * Day + 1
    /\ <<HourlyEdge[52], HourlyEdge[53], TRUE>> \in Range(found.detected)
    /\ HourlyEdge[2] - HourlyEdge[1] = 7 * Day
    /\ <<HourlyEdge[1], HourlyEdge[2], TRUE>> \notin Range(found.detected)
    /\ <<MinuteOld[2], MinuteOld[3], FALSE>> \in Range(found.detected)

C12_UnknownSymbolNoGaps ==
    (justChecked /\ found.symbol \notin stock) => found.gaps = <<>>

\* a check of MSFT, not in the stock table, made while AAPL has bars and a
\* blacklist entry, returned the empty list
C12_Witness ==
    /\ justChecked
    /\ found.symbol = "MSFT"
    /\ "MSFT" \notin stock
    /\ stock_history[<<"AAPL", TRUE>>] # <<>>
    /\ blacklist # <<>>
    /\ found.gaps = <<>>

(***************************************************************************)
(* Properties of the blacklist filter.                                     *)
(***************************************************************************)
\* the blacklist rows of the checked symbol whose timestamp lies in the
\* second of start
Matching(start) ==
    {i \in 1..Len(blacklist) :
        /\ blacklist[i].stock_symbol = found.symbol
        /\ blacklist[i].timestamp \div TicksPerSecond = start \div TicksPerSecond}

\* C13: a detected gap whose start has a blacklist entry of the same symbol
\* added less than 24 hours ago is absent from the result of check_for_gaps;
\* once every such entry was added more than 24 hours ago the gap is in the
\* result again, the entries still being stored.
C13_SuppressedThenBack ==
    CheckedKnown =>
        \A g \in Range(found.detected) :
            /\ (\E i \in Matching(g[1]) : now - blacklist[i].time_added < 24 * Hour)
                  => g \notin Range(found.gaps)
            /\ (/\ Matching(g[1]) # {}
                /\ \A i \in Matching(g[1]) : now - blacklist[i].time_added > 24 * Hour)
                  => g \in Range(found.gaps)

\* 24 hours and a tick after the start of the hole of HourlyHole was
\* blacklisted, the entry is still stored and a check returns that gap
C13_Witness ==
    /\ CheckedKnown
    /\ found.symbol = "AAPL"
    /\ Stored(TRUE) = HourlyHole
    /\ now = StartTime + 24 * Hour + 1
    /\ blacklist # <<>>
    /\ blacklist[1] = [stock_symbol |-> "AAPL", timestamp |-> HourlyHole[46],
                       time_added |-> StartTime, is_hourly |-> TRUE]
    /\ <<HourlyHole[46], HourlyHole[47], TRUE>> \in Range(found.gaps)

\* C14 as amended: check_for_gaps returns the detected gaps, in their order,
\* without those for which some blacklist entry of the same symbol lies in
\* the same second as the gap's start and was added at most 24 hours ago: an
\* entry whose age is exactly 24 hours still suppresses.
C14_FilterRuleInclusive ==
    CheckedKnown =>
        LET Kept(g) == ~Suppressed(found.symbol, g[1])
        IN  found.gaps = SelectSeq(found.detected, Kept)

\* a check exactly 24 hours after the start of the hole of HourlyHole was
\* blacklisted: that gap is detected and left out of the result, the gaps
\* after it are returned
C14_Witness ==
    /\ CheckedKnown
    /\ found.symbol = "AAPL"
    /\ Stored(TRUE) = HourlyHole
    /\ now = StartTime + 24 * Hour
    /\ blacklist # <<>>
    /\ blacklist[1] = [stock_symbol |-> "AAPL", timestamp |-> HourlyHole[46],
                       time_added |-> StartTime, is_hourly |-> TRUE]
    /\ found.detected[1] = <<HourlyHole[46], HourlyHole[47], TRUE>>
    /\ found.gaps = Tail(found.detected)
    /\ found.gaps # <<>>

\* C14 as stated: the filter removes a gap if and only if some blacklist
\* entry of the same symbol lies in the same second as the gap's start and
\* now - time_added is strictly less than 24 hours.
C14_FilterRuleStrict ==
    CheckedKnown =>
        LET Kept(g) ==
                ~ \E i \in Matching(g[1]) : now - blacklist[i].time_added < 24 * Hour
        IN  found.gaps = SelectSeq(found.detected, Kept)

\* C15: a detected gap of the checked symbol whose start has no blacklist
\* entry of that symbol is returned, whatever entries other symbols have.
C15_BlacklistScoped ==
    CheckedKnown =>
        \A g \in Range(found.detected) :
            Matching(g[1]) = {} => g \in Range(found.gaps)

\* a check of MSFT returned the gap whose start is the timestamp of an
\* unexpired blacklist entry of AAPL
C15_Witness ==
    /\ CheckedKnown
    /\ found.symbol = "MSFT"
    /\ blacklist # <<>>
    /\ blacklist[1].stock_symbol = "AAPL"
    /\ blacklist[1].time_added = now
    /\ found.gaps # <<>>
    /\ found.gaps[1][1] = blacklist[1].timestamp

\* C16: when the read of the blacklist fails while check_for_gaps holds
\* candidate gaps, the call ends with the error raised to its caller: no gap
\* list is returned, the caller fills no gap and returns no outcome.
C16_FilterFailsClosed ==
    (justChecked /\ ~found.read_ok /\ found.detected # <<>>) =>
        /\ found.raised
        /\ found.gaps = <<>>
        /\ fill_pc = "raised"
        /\ fill_gaps = <<>>
        /\ outcome = NoOutcome

\* the blacklist could not be read while the check of AAPL held the interior
\* gap of its hourly bars
C16_Witness ==
    /\ justChecked
    /\ found.symbol = "AAPL"
    /\ Stored(TRUE) = HourlyHole
    /\ ~found.read_ok
    /\ <<HourlyHole[46], HourlyHole[47], TRUE>> \in Range(found.detected)
    /\ fill_pc = "raised"

\* a step of the while loop of detect_and_fill_gaps: an attempt on the
\* current gap was made
AttemptStep ==
    /\ fill_pc = "attempt"
    /\ <<gap_index, retry_count, fill_pc>>' # <<gap_index, retry_count, fill_pc>>

\* C17: an attempt whose download holds bars within [gap.start, gap.end],
\* stored already or not, persists the missing ones, records the gap as filled
\* with retries equal to the failed attempts before it and makes no further
\* attempt on the gap; a call with one gap filled by its first attempt
\* returns gaps_found = 1, gaps_filled = 1, gaps_failed = 0.
C17_NonEmptyResponseFills ==
    [][ (AttemptStep /\ fill_df' # <<>>) =>
          LET gap == CurrentGap
              key == <<fill_ticker, gap[3]>>
          IN  /\ Range(stock_history'[key]) =
                     Range(stock_history[key]) \cup Range(fill_df')
              /\ Len(filled_gaps') = Len(filled_gaps) + 1
              /\ filled_gaps'[Len(filled_gaps')].start = gap[1]
              /\ filled_gaps'[Len(filled_gaps')].retries = retry_count
              /\ gap_index' # gap_index \/ fill_pc' = "done"
              /\ (Len(fill_gaps) = 1 /\ retry_count = 0) =>
                     /\ fill_pc' = "done"
                     /\ outcome'.gaps_found = 1
                     /\ outcome'.gaps_filled = 1
                     /\ outcome'.gaps_failed = 0 ]_vars

\* the step after the while loop of a gap no attempt filled
ExhaustStep ==
    /\ fill_pc = "exhausted"
    /\ <<gap_index, fill_pc>>' # <<gap_index, fill_pc>>

\* C18: a gap is given up only after max_retries attempts that all came back
\* empty or with an error; the step that gives it up, unless the insertion
\* fails, appends the blacklist entry (symbol, gap start, now) and reports the
\* gap under blacklisted and not under filled; and a check of the symbol made
\* while that entry is within the 24 hours returns no gap with that start.
C18_ExhaustionBlacklists ==
    [][ /\ (fill_pc' = "exhausted" /\ max_retries' >= 1) =>
              /\ retry_count' = max_retries'
              /\ fill_df' = <<>> \/ Range(fill_df') \cap
                     Range(stock_history'[<<fill_ticker', CurrentGap'[3]>>]) # {}
        /\ (ExhaustStep /\ failed_gaps' = failed_gaps) =>
              LET gap == CurrentGap
              IN  /\ blacklist' = Append(blacklist,
                                         [stock_symbol |-> fill_ticker,
                                          timestamp |-> gap[1],
                                          time_added |-> now,
                                          is_hourly |-> TRUE])
                  /\ blacklisted_gaps' = Append(blacklisted_gaps,
                                                [start |-> gap[1], end |-> gap[2],
                                                 is_hourly |-> gap[3]])
                  /\ filled_gaps' = filled_gaps
                  /\ stock_history' = stock_history
        /\ (justChecked' /\ ~found'.raised) =>
              \A g \in Range(found'.gaps) :
                  ~ \E i \in 1..Len(blacklist') :
                       /\ blacklist'[i].stock_symbol = found'.symbol
                       /\ blacklist'[i].timestamp \div TicksPerSecond =
                              g[1] \div TicksPerSecond
                       /\ now' - blacklist'[i].time_added <= 24 * Hour ]_vars

\* the interior gap of AAPL's hourly bars was given up and blacklisted by one
\* call, and the next call, a little later, detected it and got it filtered
C18_Witness ==
    /\ justChecked
    /\ found.symbol = "AAPL"
    /\ now = LateTime
    /\ Stored(TRUE) = HourlyHole
    /\ blacklist = <<[stock_symbol |-> "AAPL", timestamp |-> HourlyHole[46],
                      time_added |-> StartTime, is_hourly |-> TRUE]>>
    /\ <<HourlyHole[46], HourlyHole[47], TRUE>> \in Range(found.detected)
    /\ <<HourlyHole[46], HourlyHole[47], TRUE>> \notin Range(found.gaps)

\* C19: when the insertion of the blacklist entry of a given-up gap fails,
\* the gap is appended to failed and not to blacklisted, the blacklist is as
\* it was, the call goes on (to the next gap or to its return, never to an
\* error), and it ends only after every gap of its list was processed.
C19_BlacklistFailureContained ==
    [][ /\ (ExhaustStep /\ blacklist' = blacklist) =>
              LET gap == CurrentGap
              IN  /\ failed_gaps' = Append(failed_gaps,
                                           [start |-> gap[1], end |-> gap[2],
                                            is_hourly |-> gap[3]])
                  /\ blacklisted_gaps' = blacklisted_gaps
                  /\ filled_gaps' = filled_gaps
                  /\ IF gap_index < Len(fill_gaps)
                     THEN /\ fill_pc' \in {"attempt", "exhausted"}
                          /\ gap_index' = gap_index + 1
                          /\ retry_count' = 0
                     ELSE /\ fill_pc' = "done"
                          /\ outcome'.gaps_failed = Len(failed_gaps')
        /\ (fill_pc' = "done" /\ fill_gaps' # <<>>) =>
              /\ gap_index' = Len(fill_gaps')
              /\ Len(filled_gaps') + Len(failed_gaps') + Len(blacklisted_gaps')
                     = Len(fill_gaps') ]_vars

\* the insertion failed for the first of two gaps, and the call went on to
\* fill the second and returned
C19_Witness ==
    /\ fill_pc = "done"
    /\ Len(fill_gaps) = 2
    /\ Len(failed_gaps) = 1
    /\ failed_gaps[1].start = fill_gaps[1][1]
    /\ Len(filled_gaps) = 1
    /\ filled_gaps[1].start = fill_gaps[2][1]
    /\ blacklist = <<>>
    /\ outcome.gaps_failed = 1
    /\ outcome.gaps_blacklisted = 0

\* the counts a complete outcome carries
OutcomeCounts ==
    {"gaps_found", "gaps_filled", "gaps_failed", "gaps_blacklisted",
     "total_rows_inserted"}

\* C20: every call of detect_and_fill_gaps that returns, returns a dict with
\* the counts gaps_found, gaps_filled, gaps_failed, gaps_blacklisted and
\* total_rows_inserted, also when no gap was detected.
C20_CompleteOutcome ==
    fill_pc = "done" => OutcomeCounts \subseteq DOMAIN outcome

\* the call in progress, or the last one, was given a max_retries of 0 or less
NonPositiveBound ==
    /\ retries_arg # <<>>
    /\ retries_arg[1] <= 0

\* C21: a call of detect_and_fill_gaps with max_retries <= 0 ends at once with
\* an error: it makes no attempt, puts no gap under filled, failed or
\* blacklisted and writes no blacklist entry.
C21_NonPositiveBoundRejected ==
    [][ NonPositiveBound' =>
          /\ fill_pc' = "raised"
          /\ blacklist' = blacklist
          /\ fill_df' = <<>>
          /\ filled_gaps' = <<>>
          /\ failed_gaps' = <<>>
          /\ blacklisted_gaps' = <<>> ]_vars

\* C22: a save of bars, some of whose keys (symbol, timestamp, band) are
\* stored already, raises no error, leaves the stored rows as they are and
\* inserts the bars whose key is new: after it the rows of the symbol and band
\* are those it had before together with those of the frame, so that the same
\* frame saved twice changes nothing the second time.
C22_IdempotentInsert ==
    [][ saved'.df # <<>> =>
          LET key == <<saved'.ticker, saved'.is_hourly>>
          IN  /\ ~saved'.raised
              /\ Range(stock_history'[key]) =
                     Range(stock_history[key]) \cup Range(saved'.df)
              /\ Len(stock_history'[key]) = Cardinality(Range(stock_history'[key]))
              /\ \A k \in DOMAIN stock_history :
                     k # key => stock_history'[k] = stock_history[k] ]_vars

\* C23: the cycle asks for a gap detection batch, and processes one, only if
\* the history queue held no pending symbol when the cycle asked for a
\* history batch.
C23_GapDetectionOnlyWhenHistoryExhausted ==
    worker_pc \in {"gap_request", "gap"} => pending_at_request = <<>>

\* the positions of a get_status call
StatusLabels == {"st_h_locked", "st_h_done", "st_g_locked", "st_g_done"}

\* C24: the status a get_status call returns has, per category, remaining =
\* len(pending) and processed = len(dispatched), total_stocks = history
\* remaining + history processed, last_refresh the time of the last refresh
\* and next_refresh that time + refresh_interval_hours, both absent before the
\* first refresh; and no step of the call changes a queue or the refresh time.
C24_StatusSnapshot ==
    [][\A t \in Solo :
          /\ pc'[t] = "st_g_done" =>
                LET status == GetStatusResponse(t)'
                IN  /\ status.history_updates =
                           [remaining |-> Len(history_queue'),
                            processed |-> Len(history_processed')]
                    /\ status.gap_detection =
                           [remaining |-> Len(gap_detection_queue'),
                            processed |-> Len(gap_detection_processed')]
                    /\ status.total_stocks =
                           Len(history_queue') + Len(history_processed')
                    /\ IF last_refresh_time' = NoTime
                       THEN status.last_refresh = NoTime /\ status.next_refresh = NoTime
                       ELSE /\ status.last_refresh =
                                  <<IsoFormat(last_refresh_time'[1])>>
                            /\ status.next_refresh =
                                  <<IsoFormat(last_refresh_time'[1] + 24)>>
          /\ (pc[t] \in StatusLabels \/ pc'[t] \in StatusLabels) =>
                UNCHANGED <<history_queue, history_processed, gap_detection_queue,
                            gap_detection_processed, last_refresh_time,
                            stocks_per_request>> ]_vars

\* a status is about to be returned with both categories partly dispatched,
\* differently, after a refresh
C24_Witness ==
    /\ pc["main"] = "st_g_done"
    /\ last_refresh_time # NoTime
    /\ Len(history_queue) = 1
    /\ Len(history_processed) = 2
    /\ Len(gap_detection_queue) = 2
    /\ Len(gap_detection_processed) = 1
    /\ GetStatusResponse("main").total_stocks = 3

(***************************************************************************)
(* fetch_all_tickers_historical_data                                       *)
(***************************************************************************)
\* the tickers whose entry of results has success = False
FailedResults == {t \in DOMAIN results : ~results[t].success}

\* C25: when fetch_all_tickers_historical_data returns after its loop, it
\* has attempted every ticker of its input in order, successful + failed =
\* total_tickers, and failed_tickers lists exactly the tickers whose result
\* has success = False.
C25_EveryTickerAttempted ==
    (fetch_pc # "loop" /\ summary # NoSummary /\ summary[1].error = <<>>)
    => /\ attempted = fetch_tickers
       /\ summary[1].successful + summary[1].failed = summary[1].total_tickers
       /\ summary[1].total_tickers = Len(fetch_tickers)
       /\ Range(summary[1].failed_tickers) = FailedResults

\* C26: a step taken while the rate-limited flag is set and staying set
\* issues no quote-source request and writes nothing to the store; a call of
\* fetch_all_tickers_historical_data returns at once with successful = 0,
\* failed = the number of input tickers and the error 'Service is rate
\* limited', and a request to the fetch endpoint is rejected.
C26_RateLimitedNoRequest ==
    [][(rate_limited /\ rate_limited')
       => /\ ~requested'
          /\ fetch_pc' = "idle"
          /\ UNCHANGED <<stock, stock_history>>
          /\ response' # response => response' = "429"
          /\ response' = response =>
                /\ summary' = <<RateLimitedSummary(fetch_tickers')>>
                /\ summary'[1].successful = 0
                /\ summary'[1].failed = Len(fetch_tickers')
                /\ summary'[1].error = <<"Service is rate limited">>
                /\ results' = NoResults]_vars

\* a call under the flag has returned the rate-limited summary for two
\* tickers, after the endpoint rejected a request
C26_Witness ==
    /\ rate_limited
    /\ response = "429"
    /\ Len(fetch_tickers) = 2
    /\ summary = <<RateLimitedSummary(fetch_tickers)>>
    /\ ~requested

\* the lists of filled_gaps, failed_gaps and blacklisted_gaps that hold a gap
ListsHolding(gap) ==
    {l \in {"filled", "failed", "blacklisted"} :
        LET list == IF l = "filled" THEN filled_gaps
                    ELSE IF l = "failed" THEN failed_gaps
                    ELSE blacklisted_gaps
        IN  \E i \in 1..Len(list) :
               /\ list[i].start = gap[1]
               /\ list[i].end = gap[2]
               /\ list[i].is_hourly = gap[3]}

\* the gaps the for loop is through with
GapsEnded ==
    IF fill_pc \in {"attempt", "exhausted"} THEN gap_index - 1
    ELSE IF fill_pc = "done" THEN Len(fill_gaps)
    ELSE 0

\* C27: whatever the quote source, the store insert and the blacklist insert
\* do, every gap the loop is through with is in exactly one of filled_gaps,
\* failed_gaps and blacklisted_gaps and was attempted (it left the while loop
\* filled, or with the attempts of a bound of 1 or more used up), no
\* exception leaves the loop (a call raises before its first gap or not at
\* all), and the call returns after the last gap with
\* gaps_found = gaps_filled + gaps_failed + gaps_blacklisted.
C27_EveryGapEndsOnce ==
    /\ \A i \in 1..GapsEnded : Cardinality(ListsHolding(fill_gaps[i])) = 1
    /\ Len(filled_gaps) + Len(failed_gaps) + Len(blacklisted_gaps) = GapsEnded
    /\ (fill_pc = "exhausted" /\ max_retries >= 1) => retry_count = max_retries
    /\ fill_pc = "raised" => gap_index = 0
    /\ (fill_pc = "done" /\ fill_gaps # <<>>)
       => /\ outcome.gaps_found = Len(fill_gaps)
          /\ outcome.gaps_found = outcome.gaps_filled + outcome.gaps_failed
                                  + outcome.gaps_blacklisted

\* a call over two gaps has returned, one gap filled and the other not
C27_Witness ==
    /\ fill_pc = "done"
    /\ Len(fill_gaps) >= 2
    /\ outcome.gaps_filled >= 1
    /\ outcome.gaps_failed + outcome.gaps_blacklisted >= 1

\* C28: every attempt on a gap issues one request to the quote source, so a
\* gap gets at most R of them, and the attempt counter never exceeds the
\* retry bound R.
C28_OneRequestPerAttempt ==
    [][ AttemptStep =>
          /\ requests' <= 1
          /\ retry_count' <= max_retries ]_vars

\* the chunks fetch_ticker_minute_data requests for the current gap
GapChunks == FetchTickerMinuteChunks(CurrentGap[1], CurrentGap[2])

\* C29: an attempt on a minute gap leaves the attempt counter within the
\* bound R, and its chunk loop ends: every pass moves the chunk start forward
\* by at most 6 days, and the ranges requested from the quote source are
\* contiguous, do not overlap and cover the gap from its start to its end.
C29_ChunksCoverGap ==
    [][ (AttemptStep /\ ~CurrentGap[3]) =>
          /\ retry_count' <= max_retries
          /\ Len(GapChunks) >= 1
          /\ \A i \in 1..Len(GapChunks) :
                /\ GapChunks[i].current_start < GapChunks[i].current_end
                /\ GapChunks[i].current_end - GapChunks[i].current_start <= 6 * Day
                /\ GapChunks[i].start <= GapChunks[i].end
                /\ i < Len(GapChunks) => GapChunks[i + 1].start = GapChunks[i].end
          /\ GapChunks[1].start <= CurrentGap[1]
          /\ GapChunks[Len(GapChunks)].end >= CurrentGap[2] ]_vars

\* C30: the blacklist entry written when a gap is exhausted holds the gap's
\* start and the gap's band: is_hourly False for a minute gap, True for an
\* hourly gap.
C30_EntryRecordsBand ==
    [][ (ExhaustStep /\ Len(blacklist') = Len(blacklist) + 1) =>
          /\ blacklist'[Len(blacklist')].stock_symbol = fill_ticker
          /\ blacklist'[Len(blacklist')].timestamp = CurrentGap[1]
          /\ blacklist'[Len(blacklist')].is_hourly = CurrentGap[3] ]_vars

(***************************************************************************)
(* The blacklist between two polling cycles.                               *)
(***************************************************************************)
\* the gaps the call that has returned put on the blacklist, its rows there
\* being younger than 24 hours at the instant t, the call having filled
\* nothing (the stored bars are what they were when it started)
StillBlacklisted(t) ==
    {i \in 1..Len(blacklisted_gaps) :
        /\ fill_pc = "done"
        /\ filled_gaps = <<>>
        /\ \E j \in 1..Len(blacklist) :
              /\ blacklist[j].stock_symbol = fill_ticker
              /\ blacklist[j].timestamp = blacklisted_gaps[i].start
              /\ t - blacklist[j].time_added < blacklist_expiration_time * Hour}

\* C31: a gap detect_and_fill_gaps has blacklisted stays suppressed for the
\* 24 hours: with the stored bars unchanged, the check_for_gaps of the next
\* call for the same symbol made less than 24 hours after the blacklisting
\* returns no gap of that band over the range of the blacklisted gap,
\* whatever kind of gap it was.
C31_BlacklistedStaysSuppressed ==
    [][ (justChecked' /\ ~found'.raised /\ found'.symbol = fill_ticker) =>
          \A i \in StillBlacklisted(now') :
             \A k \in 1..Len(found'.gaps) :
                ~ /\ found'.gaps[k][3] = blacklisted_gaps[i].is_hourly
                  /\ found'.gaps[k][1] < blacklisted_gaps[i].end
                  /\ blacklisted_gaps[i].start < found'.gaps[k][2] ]_vars

\* C32: a check_for_gaps call, blacklist filter included, leaves the stored
\* bars, the stock table and the blacklist as they were, whatever it returns;
\* and no step deletes or changes a blacklist entry: the blacklist only grows
\* at its end.
C32_CheckIsPureRead ==
    [][ /\ justChecked' => UNCHANGED <<stock, stock_history, blacklist>>
        /\ IsPrefix(blacklist, blacklist') ]_vars

\* a check of a known symbol with stored hourly bars, made after the
\* blacklist entry expired, has returned gaps: the entry is still stored
C32_Witness ==
    /\ CheckedKnown
    /\ stock_history[<<found.symbol, TRUE>>] # <<>>
    /\ blacklist # <<>>
    /\ now - blacklist[1].time_added > blacklist_expiration_time * Hour
    /\ found.gaps # <<>>

\* C33: whatever error the processing of one symbol of a gap detection batch
\* raises, every symbol of the batch is passed to detect_and_fill_gaps in
\* that cycle.
C33_SiblingsStillProcessed ==
    [][ (worker_pc = "gap" /\ worker_pc' = "sleep") =>
           gap_passed' = gap_tickers ]_vars

C35_ConsistentSnapshot ==
    \A t \in Workers :
        pc[t] = "st_g_done" =>
            LET status == GetStatusResponse(t)
            IN  /\ status.history_updates.remaining + status.history_updates.processed
                       = status.gap_detection.remaining + status.gap_detection.processed
                /\ status.total_stocks
                       = status.gap_detection.remaining + status.gap_detection.processed
                /\ \E c \in Categories : status.total_stocks = Len(refreshed[c])

(***************************************************************************)
(* Delivery within a refresh cycle                                         *)
(***************************************************************************)
\* every position of the list the refresh put in has been handed out, in order
Delivered(c) == handed[c] = refreshed[c] /\ Pending(c) = <<>>

\* the batch a worker inside a batch call of category c is about to be answered
BatchOf(t, c) ==
    IF c = "history" THEN GetBatchResponse(t) ELSE GetGapDetectionBatchResponse(t)

\* C36: after refresh(T), with no further refresh and no reset, the batch calls
\* of any number of workers under fair scheduling eventually hand out every
\* position of T exactly once (the batches cut, one after the other, make up
\* T), each non-empty batch being the next limit positions of T or all that is
\* left of it, so there are exactly ceil(len(T) / limit) of them; once all of T
\* is handed out nothing more is, and a call that finds the category empty
\* answers with an empty batch; no position is handed out twice.
C36_DeliveryInCycle ==
    /\ \A c \in Categories :
          (last_refresh_time # NoTime) ~> Delivered(c)
    /\ [][\A c \in Categories :
             /\ handed'[c] # handed[c] /\ refreshed'[c] = refreshed[c] =>
                   /\ handed[c] # refreshed[c]
                   /\ Len(handed'[c]) = Min(Len(handed[c]) + stocks_per_request,
                                            Len(refreshed[c]))
             /\ Delivered(c) /\ refreshed'[c] = refreshed[c] => Delivered(c)'
             /\ \A t \in Workers :
                   /\ Delivered(c)
                   /\ AtLabel(t, c, "gb_locked", "gd_locked")
                   /\ pc'[t] = "idle"
                   => BatchOf(t, c).tickers = <<>> ]_vars
    /\ [](\A c \in Categories : IsPrefix(handed[c], refreshed[c]))

\* a list of three symbols was handed out in two batches of a limit of two,
\* and a worker has taken the lock again and finds nothing left
C36_Witness ==
    /\ stocks_per_request = 2
    /\ last_refresh_time # NoTime
    /\ refreshed["history"] = <<"B", "A", "A">>
    /\ Delivered("history")
    /\ pc["w2"] = "gb_locked"

(***************************************************************************)
(* The orchestrator's refresh                                              *)
(***************************************************************************)
\* thread t is inside fetch_stock_list_from_polygon
Fetching(t) == pc[t] = "rq_fetch"

\* nothing but thread t is inside a call
OnlyBusy(t) == \A u \in Threads \ {t} : pc[u] = "idle"

\* C37: the orchestrator's refresh fetches the universe before it takes a
\* category lock and holds a lock only for the swap-in: a thread that is
\* fetching holds no category lock, no thread ever holds both category locks,
\* and a fetch in progress does not keep a get-batch, a reset or a status
\* request from starting.
C37_FetchNeverBlocks ==
    /\ \A t \in Threads :
          Fetching(t) => history_lock # t /\ gap_detection_lock # t
    /\ \A t \in Threads : ~(history_lock = t /\ gap_detection_lock = t)
    /\ \A t \in Threads :
          Fetching(t) /\ OnlyBusy(t) =>
              /\ ENABLED (\E u \in Loop : GetBatchLock(u))
              /\ ENABLED (\E u \in Loop : GetGapDetectionBatchLock(u))
              /\ ENABLED (\E u \in Loop : ResetLockHistory(u))
              /\ ENABLED (\E u \in Loop : GetStatusLockHistory(u))

\* the sequences of both categories and the time of the last refresh
QueueContents ==
    <<history_queue, history_processed, gap_detection_queue,
      gap_detection_processed, last_refresh_time>>

\* C38: when fetching the universe fails during the orchestrator's refresh,
\* the refresh reports the error (the exception leaves refresh_stock_queue)
\* and none of its steps, from the call to the raise, changes the pending or
\* dispatched sequence of a category or last_refresh_time: no category is left
\* partly refreshed.
C38_FailedFetchChangesNothing ==
    [][\A t \in Loop \cup Jobs :
          /\ (pc[t] = "idle" /\ pc'[t] = "rq_fetch") => UNCHANGED QueueContents
          /\ pc'[t] = "rq_raised" =>
                /\ pc[t] \in {"rq_fetch", "rq_raised"}
                /\ pc[t] = "rq_fetch" => UNCHANGED QueueContents
                /\ history_lock' # t /\ gap_detection_lock' # t
          /\ (pc[t] = "rq_raised" /\ pc'[t] # "rq_raised") =>
                /\ pc'[t] = "idle"
                /\ UNCHANGED QueueContents ]_vars

\* the fetch of a /refresh request has failed while both categories, refreshed
\* before, are partly dispatched
C38_Witness ==
    /\ pc["loop"] = "rq_raised"
    /\ last_refresh_time # NoTime
    /\ history_queue # <<>> /\ history_processed # <<>>
    /\ gap_detection_queue # <<>> /\ gap_detection_processed # <<>>

(***************************************************************************)
(* clear_blacklist                                                         *)
(***************************************************************************)
\* row is an entry clear_blacklist(ticker) is to delete: every entry without
\* an argument, the entries of the symbol otherwise (symbols are upper case)
ToDelete(ticker, row) == ticker = <<>> \/ row.stock_symbol = Upper(ticker[1])

\* the rows of a table the clear is to delete, and those it is to leave
RowsToDelete(ticker, rows) ==
    {i \in 1..Len(rows) : ToDelete(ticker, rows[i])}
RowsToLeave(ticker, rows) ==
    LET Stays(row) == ~ToDelete(ticker, row) IN SelectSeq(rows, Stays)

\* an entry of the table that has not expired suppresses the gap of symbol
SuppressedByRow(symbol, gap) ==
    \E i \in 1..Len(blacklist) :
        /\ blacklist[i].stock_symbol = symbol
        /\ ReplaceMicrosecond(blacklist[i].timestamp) = ReplaceMicrosecond(gap[1])
        /\ blacklist[i].time_added >= now - blacklist_expiration_time * Hour

\* C39: clear_blacklist(symbol) deletes exactly the entries of that symbol,
\* returns their number and leaves the entries of every other symbol as they
\* were, in order; clear_blacklist() deletes every entry; the check_for_gaps
\* call that follows a clear returns every gap it detects that no entry left
\* in the table suppresses (so every gap only deleted entries suppressed); and
\* a second identical clear returns 0.
C39_ClearBlacklist ==
    [][ /\ cleared' # NoClear =>
              /\ blacklist' = RowsToLeave(cleared'.ticker, blacklist)
              /\ cleared'.count = Cardinality(RowsToDelete(cleared'.ticker, blacklist))
              /\ cleared'.ticker = <<>> => blacklist' = <<>>
              /\ cleared # NoClear /\ cleared.ticker = cleared'.ticker =>
                    cleared'.count = 0
        /\ cleared # NoClear /\ justChecked' /\ found'.symbol \in stock =>
              \A i \in 1..Len(found'.detected) :
                  ~SuppressedByRow(found'.symbol, found'.detected[i]) =>
                      found'.detected[i] \in Range(found'.gaps) ]_vars

\* clear_blacklist("aapl") has deleted the one entry of AAPL and left the one
\* of MSFT, and the gap of AAPL is no longer suppressed
C39_Witness ==
    /\ cleared = [ticker |-> <<"aapl">>, count |-> 1]
    /\ Len(blacklist) = 1
    /\ blacklist[1].stock_symbol = "MSFT"
    /\ blacklist[1].time_added >= now - blacklist_expiration_time * Hour
    /\ CheckForGaps("AAPL") # <<>>
    /\ Len(CheckForGaps("MSFT")) < Len(DetectedGaps("MSFT"))

(***************************************************************************)
(* The orchestrator's endpoints and StockQueueService                      *)
(***************************************************************************)
\* thread t's call goes from label from to label to in this step
Moves(t, from, to) == pc[t] = from /\ pc'[t] = to

\* C40: the two queue implementations are equivalent.  Both start with empty
\* lists and no refresh time; from the same lists, with the limit and the
\* refresh interval of the service instance, every refresh (of the same list),
\* get-batch, get-gap-detection-batch, reset and status operation of the
\* service leaves the lists the orchestrator's endpoint leaves and returns
\* the tickers, batch_size, remaining_in_queue and total_processed (and the
\* status and reset answers) the endpoint returns -- so the two hold the same
\* lists after every step of every sequence of operations.
C40_SameAsOrchestrator ==
    [][\A t \in Solo :
          /\ Moves(t, "gb_locked", "idle") \/ Moves(t, "gb_ext", "idle") =>
                LET o == GetStockBatchEndpoint(snap[t].queue, snap[t].processed,
                                               stocks_per_request)
                IN  /\ history_queue' = o.queue
                    /\ history_processed' = o.processed
                    /\ GetBatchResponse(t) = o.response
          /\ Moves(t, "gd_locked", "idle") \/ Moves(t, "gd_ext", "idle") =>
                LET o == GetGapDetectionBatchEndpoint(snap[t].queue, snap[t].processed,
                                                      stocks_per_request)
                IN  /\ gap_detection_queue' = o.queue
                    /\ gap_detection_processed' = o.processed
                    /\ GetGapDetectionBatchResponse(t) = o.response
          /\ Moves(t, "rs_h_ext", "rs_h_done") =>
                LET o == ResetQueueEndpoint(snap[t].queue, snap[t].processed)
                IN  history_queue' = o.queue /\ history_processed' = o.processed
          /\ Moves(t, "rs_g_ext", "rs_g_done") =>
                LET o == ResetQueueEndpoint(snap[t].queue, snap[t].processed)
                IN  gap_detection_queue' = o.queue /\ gap_detection_processed' = o.processed
          /\ Moves(t, "rs_g_done", "idle") =>
                ResetResponse = ResetQueueResponse(history_queue, gap_detection_queue)
          /\ Moves(t, "rf_g_done", "idle") =>
                LET o == RefreshStockQueueEndpoint(tickers[t])
                IN  /\ history_queue' = o.queue /\ history_processed' = o.processed
                    /\ gap_detection_queue' = o.queue
                    /\ gap_detection_processed' = o.processed
                    /\ last_refresh_time' # NoTime
          /\ pc'[t] = "st_g_done" =>
                GetStatusResponse(t)' =
                    GetStatusEndpoint(history_queue', history_processed',
                                      gap_detection_queue', gap_detection_processed',
                                      last_refresh_time') ]_vars

\* after a refresh and a reset, a get_batch call is about to return a batch
\* cut from a list of three with one symbol dispatched before
C40_Witness ==
    /\ pc["main"] = "gb_ext"
    /\ last_refresh_time # NoTime
    /\ resetSince["history"]
    /\ Len(snap["main"].queue) = 2
    /\ Len(snap["main"].processed) = 1
    /\ batch["main"] # <<>>

=============================================================================
